---------------------------- MODULE Spec2Model ----------------------------
(***************************************************************************)
(* A model of the Eve toolchain core (eth-cscs/eve_toolchain):             *)
(*   - src/src/eve/datamodel.py : generic specialization (__concretize__), *)
(*     entity construction, type-derived validators;                       *)
(*   - src/src/eve/visitors.py  : NodeTranslator and NodeModifier.         *)
(* Each part of the program has its own variables and its own              *)
(* specification; a specification leaves the other parts' variables at     *)
(* their idle values.                                                      *)
(***************************************************************************)
EXTENDS Integers, Sequences, FiniteSets, TLC

VARIABLES
    \* --- generic specialization cache (datamodel.py 297-382) ---
    cache,          \* the memo of __concretize__: key -> concrete type object
    lock,           \* holder of the cache-population lock, or "free"
    created,        \* every concrete type object made by types.new_class
    moduleGlobals,  \* sys.modules[...].__dict__: class name -> type object
    pc,             \* per thread: position inside a specialization request
    req,            \* per thread: the key (cls, type_args) of its request
    concrete_cls,   \* per thread: the type object its call holds
    returned        \* every (key, type object) a completed request returned

cacheVars == <<cache, lock, created, moduleGlobals, pc, req, concrete_cls, returned>>

VARIABLES
    \* --- NodeModifier.generic_visit on a mutable sequence (visitors.py 200-248) ---
    original,       \* the elements of the sequence when the visit starts
    handler,        \* what self.visit returns for each element
    node,           \* the sequence object being modified in place
    it_index,       \* the list iterator inside enumerate(node): next position
    it_count,       \* the counter of enumerate(node): next idx
    index_shift,    \* the closure variable of set_op and del_op
    visited,        \* the values self.visit was called with, in order
    mpc             \* "start", "loop" or "done"

seqVars == <<original, handler, node, it_index, it_count, index_shift, visited, mpc>>

VARIABLES
    \* --- NodeTranslator / NodeModifier on a tree (visitors.py 75-91, 128-248) ---
    tree,           \* the heap: object id -> object; the root is object 1
    tree0,          \* the heap as it was before the pass
    visit_method,   \* per object: the handler self.visit dispatches to
    result,         \* the object id the pass returned (0: none yet)
    writes,         \* the (object, slot) pairs set_op wrote during the pass
    tpc             \* "ready", "translated" or "modified"

treeVars == <<tree, tree0, visit_method, result, writes, tpc>>

VARIABLES
    \* --- type-derived field validators (datamodel.py 50-208, 470-477) ---
    type_hint,      \* the resolved annotation of the field
    field_value,    \* the value passed for the field at construction
    type_validator, \* what strict_type_attrs_validator returned for the hint
    outcome,        \* how the construction ended: ok or the exception raised
    calls,          \* how many member validators the field's validator called
    vpc             \* "annotated", "declared", "rejected" or "constructed"

valVars == <<type_hint, field_value, type_validator, outcome, calls, vpc>>

VARIABLES
    \* --- construction of a data model instance (datamodel.py 271-294, 437-559) ---
    entity,         \* the declaration of the class: flags, fields, validators
    call_args,      \* the shape of the arguments of the constructor call
    steps_run,      \* the checks executed so far, in order
    ctor_error,     \* the exception the call raised, if any
    cpc             \* "declared", "running", "raised" or "returned"

ctorVars == <<entity, call_args, steps_run, ctor_error, cpc>>

VARIABLES
    \* --- NodeVisitor.visit: the choice of the visitor method (visitors.py 75-91) ---
    node_mro,       \* node.__class__.__mro__, as the names of the classes
    handlers,       \* the class names X for which the visitor has a visit_X method
    consulted,      \* the class names hasattr was asked about, in order
    visitor,        \* the method chosen: a class name X (visit_X) or "generic_visit"
    mro_index,      \* the position of the loop of line 82 in the mro
    dpc             \* "start", "walk", "call" or "done"

dispatchVars == <<node_mro, handlers, consulted, visitor, mro_index, dpc>>

VARIABLES
    \* --- assignment to a field of an instance (datamodel.py 437-447, 559) ---
    options,        \* the keyword arguments the class was declared with
    x_before,       \* the value of the field x after construction
    x_now,          \* the value of the field x now
    assigned,       \* the value of the statement instance.x = assigned
    setattr_error,  \* the exception the assignment raised, "" if none
    apc             \* "constructed" or "assigned"

setattrVars == <<options, x_before, x_now, assigned, setattr_error, apc>>

VARIABLES
    \* --- generic_visit on one container (visitors.py 132-164, 186-248) ---
    coll,           \* the container visited: its class, keys and values in iteration order
    coll0,          \* the container as it was before the pass
    visit_result,   \* what self.visit returns for each value (0: eve.NOTHING)
    engine,         \* the visitor class: "NodeTranslator" or "NodeModifier"
    output,         \* the container generic_visit returned
    snapshot,       \* items of a mutable set: list(enumerate(node))
    di_used,        \* the size the dict iterator recorded when it was created
    cursor,         \* how many items the loop of line 241 has taken
    pass_error,     \* the exception generic_visit raised, "" if none
    ppc             \* "ready", "loop", "raised" or "returned"

passVars == <<coll, coll0, visit_result, engine, output, snapshot, di_used, cursor,
              pass_error, ppc>>

VARIABLES
    \* --- NodeTranslator on an object graph with sharing (visitors.py 128-164) ---
    graph,          \* the input objects: class and children (object ids) of each
    copies,         \* the objects the pass created: class, children, and the input object copied
    memo,           \* self.memo: input leaf -> its deep copy
    stack,          \* the active generic_visit calls, innermost last
    share_result,   \* the object visit(root) returned (0: none yet)
    share_error,    \* the exception the pass raised, "" if none
    spc             \* "running", "raised" or "returned"

shareVars == <<graph, copies, memo, stack, share_result, share_error, spc>>

VARIABLES
    \* --- PathNodeVisitor: the default traversal (visitors.py 264-330) ---
    ptree,          \* the tree visited: class and children of each object
    plists,         \* the list objects held by PathInfo records, by id
    pstack,         \* the active generic_visit calls: node, its record, children done
    received,       \* visited object -> the frames of the record it was visited with
    path_of,        \* visited object -> the id of the list of that record
    pathpc          \* "ready", "walking" or "done"

pathVars == <<ptree, plists, pstack, received, path_of, pathpc>>

VARIABLES
    \* --- PathNodeVisitor.visit on the same node and methods (visitors.py 293-310) ---
    path_visitor    \* the method PathNodeVisitor.visit chose, "" before it ran

choiceVars == <<path_visitor>>

VARIABLES
    \* --- declaration of a class hierarchy: root validators (datamodel.py 498-535) ---
    class_bases,    \* class -> its direct bases among the classes before it, in order
    own_roots,      \* class -> how many @root_validator functions its body defines
    declared_upto,  \* the classes 1..declared_upto have been through datamodel()
    validators_of,  \* declared class -> its __datamodel_validators__ tuple
    ran,            \* the root validators called while constructing an instance
    kpc             \* "declaring" or "constructed"

declVars == <<class_bases, own_roots, declared_upto, validators_of, ran, kpc>>

vars == <<cacheVars, seqVars, treeVars, valVars, ctorVars, dispatchVars, setattrVars, passVars, shareVars, pathVars, choiceVars, declVars>>

\* What an action of one part leaves alone: the variables of the other parts.
notCache == <<seqVars, treeVars, valVars, ctorVars, dispatchVars, setattrVars, passVars, shareVars, pathVars, choiceVars, declVars>>
notSeq == <<cacheVars, treeVars, valVars, ctorVars, dispatchVars, setattrVars, passVars, shareVars, pathVars, choiceVars, declVars>>
notTree == <<cacheVars, seqVars, valVars, ctorVars, dispatchVars, setattrVars, passVars, shareVars, pathVars, choiceVars, declVars>>
notVal == <<cacheVars, seqVars, treeVars, ctorVars, dispatchVars, setattrVars, passVars, shareVars, pathVars, choiceVars, declVars>>
notCtor == <<cacheVars, seqVars, treeVars, valVars, dispatchVars, setattrVars, passVars, shareVars, pathVars, choiceVars, declVars>>
notDispatch == <<cacheVars, seqVars, treeVars, valVars, ctorVars, setattrVars, passVars, shareVars, pathVars, choiceVars, declVars>>
notSetattr == <<cacheVars, seqVars, treeVars, valVars, ctorVars, dispatchVars, passVars, shareVars, pathVars, choiceVars, declVars>>
notPass == <<cacheVars, seqVars, treeVars, valVars, ctorVars, dispatchVars, setattrVars, shareVars, pathVars, choiceVars, declVars>>
notShare == <<cacheVars, seqVars, treeVars, valVars, ctorVars, dispatchVars, setattrVars, passVars, pathVars, choiceVars, declVars>>
notPath == <<cacheVars, seqVars, treeVars, valVars, ctorVars, dispatchVars, setattrVars, passVars, shareVars, choiceVars, declVars>>
notChoice == <<cacheVars, seqVars, treeVars, valVars, ctorVars, dispatchVars, setattrVars, passVars, shareVars, pathVars, declVars>>
notDecl == <<cacheVars, seqVars, treeVars, valVars, ctorVars, dispatchVars, setattrVars, passVars, shareVars, pathVars, choiceVars>>

(***************************************************************************)
(* Generic specialization: __class_getitem__ and __concretize__            *)
(***************************************************************************)

\* Longest tuple of type arguments a request passes.
MaxTypeArgs == 2

Threads == {"t1", "t2"}

\* "int" is a class, "T" a typing.TypeVar, "5" a value that is neither.
ArgAtoms == {"int", "T", "5"}

\* G is declared Generic[T] (one type parameter), N has no type parameters.
Classes == {"G", "N"}

\* cls.__parameters__
Parameters(cls) == IF cls = "G" THEN <<"T">> ELSE <<>>

\* cls.__is_generic__ (datamodel.py 555)
IsGeneric(cls) == Len(Parameters(cls)) > 0

ArgTuples == UNION {[1..n -> ArgAtoms] : n \in 0..MaxTypeArgs}

\* What is written between the brackets of E[...]: one bare value or a tuple.
SubscriptArgs ==
    {[isTuple |-> FALSE, item |-> a] : a \in ArgAtoms}
        \cup {[isTuple |-> TRUE, items |-> s] : s \in ArgTuples}

\* __class_getitem__: type_args = args if isinstance(args, tuple) else (args,)
ClassGetitemArgs(args) == IF args.isTuple THEN args.items ELSE <<args.item>>

\* isinstance(t, (type, typing.TypeVar))
IsTypeOrTypeVar(t) == t \in {"int", "T"}

\* The checks without the comparison of the number of arguments.
ConcretizeCheckNoCount(cls, type_args) ==
    IF ~IsGeneric(cls) THEN "TypeError: not a generic model class"
    ELSE IF \E i \in 1..Len(type_args) : ~IsTypeOrTypeVar(type_args[i])
        THEN "TypeError: only type and TypeVar values"
    ELSE "ok"

\* The three validation checks at the head of __concretize__; "ok" or the
\* error that is raised.
ConcretizeCheck(cls, type_args) ==
    IF ~IsGeneric(cls) THEN "TypeError: not a generic model class"
    ELSE IF \E i \in 1..Len(type_args) : ~IsTypeOrTypeVar(type_args[i])
        THEN "TypeError: only type and TypeVar values"
    ELSE IF Len(type_args) # Len(Parameters(cls))
        THEN "TypeError: wrong number of parameters"
    ELSE "ok"

RECURSIVE JoinNames(_)
\* '_'.join(arg_names), as the sequence of the pieces of the string
JoinNames(names) ==
    IF Len(names) = 0 THEN <<>>
    ELSE IF Len(names) = 1 THEN <<names[1]>>
    ELSE <<names[1], "_">> \o JoinNames(Tail(names))

\* class_name = f"{cls.__name__}__{'_'.join(arg_names)}"
ClassName(cls, type_args) == <<cls, "__">> \o JoinNames(type_args)

\* The decorator on __concretize__ is absent: every call runs the body.
NotMemoized == FALSE

\* @utils.optional_lru_cache(maxsize=None, typed=True) decorates __concretize__.
Memoized == TRUE

\* The key under which a call is memoized: the positional arguments
\* (cls, *type_args) of the decorated classmethod.
CacheKey(cls, type_args) == <<cls, type_args>>

Keys == {CacheKey(c, s) : c \in Classes, s \in ArgTuples}

\* Whether the memo holds an entry for the key.
CacheHit(c, key) == Memoized /\ key \in DOMAIN c

\* The lock is never taken (the body runs unserialized).
LockNeverHeld(t) == "free"

\* The value of the lock once thread t has acquired it.
LockHeldBy(t) == t

\* types.new_class(...): a type object that did not exist before.  Its
\* identity is (key, number of types made for that key before it).
NewClass(key) ==
    [key |-> key, name |-> ClassName(key[1], key[2]),
     serial |-> Cardinality({o \in created : o.key = key})]

NoKey == <<"", <<>>>>

NoObject == [key |-> NoKey, name |-> <<>>, serial |-> 0]

CachePut(c, key, obj) ==
    [k \in DOMAIN c \cup {key} |-> IF k = key THEN obj ELSE c[k]]

EmptyMap == [k \in {} |-> NoObject]

CacheInit ==
    /\ cache = EmptyMap
    /\ lock = "free"
    /\ created = {}
    /\ moduleGlobals = EmptyMap
    /\ pc = [t \in Threads |-> "idle"]
    /\ req = [t \in Threads |-> NoKey]
    /\ concrete_cls = [t \in Threads |-> NoObject]
    /\ returned = {}

\* A request enters the memoizing wrapper: an entry that is already cached
\* is read without the lock, anything else queues for the lock.
Enter(t, key) ==
    /\ pc[t] = "idle"
    /\ req' = [req EXCEPT ![t] = key]
    /\ IF CacheHit(cache, key)
         THEN /\ pc' = [pc EXCEPT ![t] = "returning"]
              /\ concrete_cls' = [concrete_cls EXCEPT ![t] = cache[key]]
         ELSE /\ pc' = [pc EXCEPT ![t] = "waiting"]
              /\ UNCHANGED concrete_cls
    /\ UNCHANGED <<cache, lock, created, moduleGlobals, returned>>
    /\ UNCHANGED notCache

\* E[args]
ClassGetitem(t) ==
    \E cls \in Classes, args \in SubscriptArgs :
        Enter(t, CacheKey(cls, ClassGetitemArgs(args)))

\* E.__concretize__(*type_args)
CallConcretize(t) ==
    \E cls \in Classes, type_args \in ArgTuples :
        Enter(t, CacheKey(cls, type_args))

\* Cache population is serialized: the lock is taken and the cache is read
\* again under it.  An entry that appeared while the thread waited is
\* returned as it is and the lock is released at once.
Acquire(t) ==
    /\ pc[t] = "waiting"
    /\ lock = "free"
    /\ IF CacheHit(cache, req[t])
         THEN /\ pc' = [pc EXCEPT ![t] = "returning"]
              /\ concrete_cls' = [concrete_cls EXCEPT ![t] = cache[req[t]]]
              /\ UNCHANGED lock
         ELSE /\ pc' = [pc EXCEPT ![t] = "validate"]
              /\ lock' = LockHeldBy(t)
              /\ UNCHANGED concrete_cls
    /\ UNCHANGED <<cache, created, moduleGlobals, req, returned>>
    /\ UNCHANGED notCache

\* __concretize__ lines 315-327, the checks pass.
Validate(t) ==
    /\ pc[t] = "validate"
    /\ ConcretizeCheck(req[t][1], req[t][2]) = "ok"
    /\ pc' = [pc EXCEPT ![t] = "new_class"]
    /\ UNCHANGED <<cache, lock, created, moduleGlobals, req, concrete_cls, returned>>
    /\ UNCHANGED notCache

\* __concretize__ lines 315-327, a check raises TypeError: the exception
\* leaves the wrapper, nothing is cached.
RaiseTypeError(t) ==
    /\ pc[t] = "validate"
    /\ ConcretizeCheck(req[t][1], req[t][2]) # "ok"
    /\ pc' = [pc EXCEPT ![t] = "raised"]
    /\ lock' = IF lock = t THEN "free" ELSE lock
    /\ UNCHANGED <<cache, created, moduleGlobals, req, concrete_cls, returned>>
    /\ UNCHANGED notCache

\* __concretize__ lines 329-365: the new concrete class is created.
CreateClass(t) ==
    /\ pc[t] = "new_class"
    /\ concrete_cls' = [concrete_cls EXCEPT ![t] = NewClass(req[t])]
    /\ created' = created \cup {NewClass(req[t])}
    /\ pc' = [pc EXCEPT ![t] = "register"]
    /\ UNCHANGED <<cache, lock, moduleGlobals, req, returned>>
    /\ UNCHANGED notCache

\* __concretize__ lines 367-378 (support_pickling and overwrite_definition
\* at their defaults): reference_module_globals[class_name] = concrete_cls.
Register(t) ==
    /\ pc[t] = "register"
    /\ moduleGlobals' = CachePut(moduleGlobals, concrete_cls[t].name, concrete_cls[t])
    /\ pc' = [pc EXCEPT ![t] = "store"]
    /\ UNCHANGED <<cache, lock, created, req, concrete_cls, returned>>
    /\ UNCHANGED notCache

\* The body returned: the wrapper stores the result under the key and
\* releases the lock.
Store(t) ==
    /\ pc[t] = "store"
    /\ cache' = IF Memoized THEN CachePut(cache, req[t], concrete_cls[t]) ELSE cache
    /\ lock' = IF lock = t THEN "free" ELSE lock
    /\ pc' = [pc EXCEPT ![t] = "returning"]
    /\ UNCHANGED <<created, moduleGlobals, req, concrete_cls, returned>>
    /\ UNCHANGED notCache

\* The caller receives the type object.
Return(t) ==
    /\ pc[t] = "returning"
    /\ returned' = returned \cup {<<req[t], concrete_cls[t]>>}
    /\ pc' = [pc EXCEPT ![t] = "idle"]
    /\ req' = [req EXCEPT ![t] = NoKey]
    /\ concrete_cls' = [concrete_cls EXCEPT ![t] = NoObject]
    /\ UNCHANGED <<cache, lock, created, moduleGlobals>>
    /\ UNCHANGED notCache

\* The caller receives the TypeError.
Propagate(t) ==
    /\ pc[t] = "raised"
    /\ pc' = [pc EXCEPT ![t] = "idle"]
    /\ req' = [req EXCEPT ![t] = NoKey]
    /\ UNCHANGED <<cache, lock, created, moduleGlobals, concrete_cls, returned>>
    /\ UNCHANGED notCache

ThreadStep(t) ==
    \/ ClassGetitem(t)
    \/ CallConcretize(t)
    \/ Acquire(t)
    \/ Validate(t)
    \/ RaiseTypeError(t)
    \/ CreateClass(t)
    \/ Register(t)
    \/ Store(t)
    \/ Return(t)
    \/ Propagate(t)

CacheIdle ==
    /\ CacheInit

(***************************************************************************)
(* NodeModifier.generic_visit on a mutable sequence                        *)
(***************************************************************************)

\* Longest sequence visited.
MaxSeqLen == 4

\* What the handler of an element returns: the element itself, a value that
\* differs from it, or the deletion sentinel eve.NOTHING.
Results == {"same", "new", "NOTHING"}

\* The value a "new" handler returns for element v (unequal to every element).
NewValue(v) == v + 100

\* container[i] with Python's index rule (a negative index counts from the end).
PyIndex(container, i) == IF i < 0 THEN Len(container) + i + 1 ELSE i + 1

\* del container[i]
DelItem(container, i) ==
    [k \in 1..(Len(container) - 1) |->
        IF k < PyIndex(container, i) THEN container[k] ELSE container[k + 1]]

\* container[i] = value
SetItem(container, i, value) ==
    [container EXCEPT ![PyIndex(container, i)] = value]

SeqIdle ==
    /\ original = <<>>
    /\ handler = <<>>
    /\ node = <<>>
    /\ it_index = 0
    /\ it_count = 0
    /\ index_shift = 0
    /\ visited = <<>>
    /\ mpc = "idle"

\* A list of n distinct elements 1..n and a handler result for each.
SeqInit ==
    /\ \E n \in 0..MaxSeqLen :
          /\ original = [i \in 1..n |-> i]
          /\ handler \in [1..n -> Results]
    /\ node = original
    /\ it_index = 0
    /\ it_count = 0
    /\ index_shift = 0
    /\ visited = <<>>
    /\ mpc = "start"

\* lines 200-210: items = enumerate(node); index_shift = 0.  enumerate is
\* lazy: it reads the live list each time the loop asks for the next item.
ModifierStart ==
    /\ mpc = "start"
    /\ it_index' = 0
    /\ it_count' = 0
    /\ index_shift' = 0
    /\ mpc' = "loop"
    /\ UNCHANGED <<original, handler, node, visited>>
    /\ UNCHANGED notSeq

\* The item the loop of line 241 gets next: (idx, value).
NextKey == it_count
NextValue == node[it_index + 1]
HasNext == it_index < Len(node)

Advance ==
    /\ it_index' = it_index + 1
    /\ it_count' = it_count + 1
    /\ visited' = Append(visited, NextValue)

\* lines 241-244: new_value is NOTHING: del_op(result, key).
ModifierDelete ==
    /\ mpc = "loop" /\ HasNext
    /\ handler[NextValue] = "NOTHING"
    /\ node' = DelItem(node, NextKey - index_shift)
    /\ index_shift' = index_shift + 1
    /\ Advance
    /\ UNCHANGED <<original, handler, mpc>>
    /\ UNCHANGED notSeq

\* lines 241-246: new_value != value: set_op(result, key, new_value).
ModifierReplace ==
    /\ mpc = "loop" /\ HasNext
    /\ handler[NextValue] = "new"
    /\ node' = SetItem(node, NextKey - index_shift, NewValue(NextValue))
    /\ Advance
    /\ UNCHANGED <<original, handler, index_shift, mpc>>
    /\ UNCHANGED notSeq

\* lines 241-246: new_value is the element itself: nothing is written.
ModifierKeep ==
    /\ mpc = "loop" /\ HasNext
    /\ handler[NextValue] = "same"
    /\ Advance
    /\ UNCHANGED <<original, handler, node, index_shift, mpc>>
    /\ UNCHANGED notSeq

\* The iterator is exhausted: generic_visit returns result (line 248).
ModifierReturn ==
    /\ mpc = "loop" /\ ~HasNext
    /\ mpc' = "done"
    /\ UNCHANGED <<original, handler, node, it_index, it_count, index_shift, visited>>
    /\ UNCHANGED notSeq

SeqNext ==
    \/ ModifierStart
    \/ ModifierDelete
    \/ ModifierReplace
    \/ ModifierKeep
    \/ ModifierReturn

(***************************************************************************)
(* NodeTranslator and NodeModifier on a tree of objects                    *)
(***************************************************************************)

\* Most objects in a tree.
MaxObjects == 3

\* The classes of the objects of a tree.  "Node" is an eve Node, "int" an
\* immutable atomic leaf, "bytearray" a mutable member of
\* ATOMIC_COLLECTION_TYPES, "mappingproxy" an immutable Mapping.
Kinds ==
    {"Node", "list", "tuple", "set", "frozenset", "dict", "mappingproxy",
     "int", "bytearray"}

\* NodeVisitor.ATOMIC_COLLECTION_TYPES (the str/bytes/bytearray leaves)
AtomicCollectionKinds == {"bytearray"}

LeafKinds == {"int"} \cup AtomicCollectionKinds

\* isinstance(node, collections.abc.MutableSequence / MutableSet / MutableMapping)
MutableSequenceKinds == {"list"}
MutableSetKinds == {"set"}
MutableMappingKinds == {"dict"}

\* isinstance(node, (collections.abc.Sequence, collections.abc.Set))
SequenceOrSetKinds == {"list", "tuple", "set", "frozenset"}

\* isinstance(node, collections.abc.Mapping)
MappingKinds == {"dict", "mappingproxy"}

SetKinds == {"set", "frozenset"}

\* Objects that can be changed after they are made.
MutableKinds == {"Node", "list", "set", "dict", "bytearray"}

\* Classes whose objects Python can hash when all their members can.
HashableKinds == {"int", "tuple", "frozenset"}

\* self.visit finds no visit_<Class> method, or one that returns the node
\* it is given.
VisitMethods == {"generic_visit", "return_node"}

\* The children of an object: a Node's children in field order, a
\* sequence's or set's elements, a mapping's values in key order.
Kids(h, n) == h[n].kids

RECURSIVE PyEq(_, _, _)
\* a == b: the same object, or objects of one class with equal contents.
PyEq(h, a, b) ==
    \/ a = b
    \/ /\ h[a].kind = h[b].kind
       /\ h[a].val = h[b].val
       /\ IF h[a].kind \in SetKinds
            THEN /\ \A i \in DOMAIN Kids(h, a) : \E j \in DOMAIN Kids(h, b) :
                        PyEq(h, Kids(h, a)[i], Kids(h, b)[j])
                 /\ \A j \in DOMAIN Kids(h, b) : \E i \in DOMAIN Kids(h, a) :
                        PyEq(h, Kids(h, a)[i], Kids(h, b)[j])
            ELSE /\ Len(Kids(h, a)) = Len(Kids(h, b))
                 /\ \A i \in DOMAIN Kids(h, a) :
                        PyEq(h, Kids(h, a)[i], Kids(h, b)[i])

\* new_value is not value (an identity test where the code compares values)
IsNot(h, a, b) == a # b

\* new_value != value
NotEqual(h, a, b) == ~PyEq(h, a, b)

\* A new object is allocated at the next free id.
Alloc(h, obj) == [h |-> Append(h, obj), r |-> Len(h) + 1]

\* The container itself is given the new members and returned.
RebuildInPlace(h, n, values) == [h |-> [h EXCEPT ![n].kids = values], r |-> n]

\* node.__class__(values): a new container of the same class; building an
\* empty tuple or frozenset gives the interpreter's shared empty object,
\* which the empty input already is.
Rebuild(h, n, values) ==
    IF values = <<>> /\ h[n].kind \in {"tuple", "frozenset"} /\ Kids(h, n) = <<>>
        THEN [h |-> h, r |-> n]
        ELSE Alloc(h, [kind |-> h[n].kind, kids |-> values, val |-> h[n].val])

\* eve.NOTHING as the result of a visit: no object.
NOTHING == 0

\* What a handler that returns a new value for object n returns: a new leaf
\* unequal to every object of the tree.
NewLeaf(h, n) == Alloc(h, [kind |-> "int", kids |-> <<>>, val |-> 0 - n])

\* What a handler that returns copy.copy(node) returns: a new object of the
\* same class with the same attributes and children, equal to the node.
EqualCopy(h, n) == Alloc(h, h[n])

\* result = node: the leaf itself is returned, uncopied
ReturnLeaf(h, n) == [h |-> h, r |-> n]

\* copy.deepcopy(node, memo=self.memo) of a leaf: an immutable atomic value
\* is returned as it is, anything else is copied into a new object.
DeepCopy(h, n) ==
    IF h[n].kind = "int" THEN [h |-> h, r |-> n]
    ELSE Alloc(h, [kind |-> h[n].kind, kids |-> <<>>, val |-> h[n].val])

RECURSIVE TranslatorVisit(_, _, _)
RECURSIVE TranslatorVisitAll(_, _, _)
\* NodeTranslator: self.visit(node) with the dispatch of NodeVisitor.visit and
\* NodeTranslator.generic_visit (lines 132-164).  A handler may return the
\* node, eve.NOTHING (the result 0) or a new value; a result that is NOTHING
\* is left out of the rebuilt Node or container.
TranslatorVisit(h, vm, n) ==
    IF vm[n] = "return_node" THEN [h |-> h, r |-> n]
    ELSE IF vm[n] = "return_NOTHING" THEN [h |-> h, r |-> NOTHING]
    ELSE IF vm[n] = "return_new" THEN NewLeaf(h, n)
    ELSE IF h[n].kind \in LeafKinds THEN DeepCopy(h, n)
    ELSE LET sub == TranslatorVisitAll(h, vm, Kids(h, n))
             kept == SelectSeq(sub.rs, LAMBDA v : v # NOTHING)
         IN  IF h[n].kind = "Node"
               THEN Alloc(sub.h, [kind |-> "Node", kids |-> kept, val |-> h[n].val])
               ELSE Rebuild(sub.h, n, kept)

\* [self.visit(value) for value in ...]: the visits in order, each on the
\* heap the previous one left.
TranslatorVisitAll(h, vm, ks) ==
    IF ks = <<>> THEN [h |-> h, rs |-> <<>>]
    ELSE LET first == TranslatorVisit(h, vm, Head(ks))
             rest == TranslatorVisitAll(first.h, vm, Tail(ks))
         IN  [h |-> rest.h, rs |-> <<first.r>> \o rest.rs]

\* set_op(result, key, new_value): setattr, container[idx - index_shift] =
\* value (index_shift is 0 while nothing is deleted), operator.setitem; for a
\* set, container.add(value).
SetOp(h, n, i, new) ==
    IF h[n].kind \in MutableSetKinds
        THEN IF \E j \in DOMAIN Kids(h, n) : PyEq(h, Kids(h, n)[j], new)
               THEN h
               ELSE [h EXCEPT ![n].kids = Append(@, new)]
        ELSE [h EXCEPT ![n].kids[i] = new]

RECURSIVE ModifierVisit(_, _, _)
RECURSIVE ModifierVisitAll(_, _, _)
RECURSIVE ModifierLoop(_, _, _, _, _, _)
\* NodeModifier: self.visit(node) with the dispatch of NodeVisitor.visit and
\* NodeModifier.generic_visit (lines 186-248); w collects the slots written.
ModifierVisit(h, vm, n) ==
    IF vm[n] = "return_node" THEN [h |-> h, r |-> n, w |-> {}]
    ELSE IF vm[n] = "return_new" THEN NewLeaf(h, n) @@ [w |-> {}]
    ELSE IF vm[n] = "return_equal" THEN EqualCopy(h, n) @@ [w |-> {}]
    ELSE IF h[n].kind \in LeafKinds THEN [h |-> h, r |-> n, w |-> {}]
    ELSE IF h[n].kind \in {"Node"} \cup MutableSequenceKinds \cup MutableSetKinds
                               \cup MutableMappingKinds
        THEN LET done == ModifierLoop(h, vm, n, 1, Len(Kids(h, n)), {})
             IN  [h |-> done.h, r |-> n, w |-> done.w]
    ELSE LET sub == ModifierVisitAll(h, vm, Kids(h, n))
             new == Rebuild(sub.h, n, sub.rs)
         IN  [h |-> new.h, r |-> new.r, w |-> sub.w]

\* lines 228 and 235: the visits of an immutable container's members.
ModifierVisitAll(h, vm, ks) ==
    IF ks = <<>> THEN [h |-> h, rs |-> <<>>, w |-> {}]
    ELSE LET first == ModifierVisit(h, vm, Head(ks))
             rest == ModifierVisitAll(first.h, vm, Tail(ks))
         IN  [h |-> rest.h, rs |-> <<first.r>> \o rest.rs, w |-> first.w \cup rest.w]

\* lines 241-246: for key, value in items: visit, then set_op when the new
\* value differs.  No handler returns NOTHING in these passes.
ModifierLoop(h, vm, n, i, len, w) ==
    IF i > len THEN [h |-> h, w |-> w]
    ELSE LET value == Kids(h, n)[i]
             sub == ModifierVisit(h, vm, value)
         IN  IF NotEqual(sub.h, sub.r, value)
               THEN ModifierLoop(SetOp(sub.h, n, i, sub.r), vm, n, i + 1, len,
                                 w \cup sub.w \cup {<<n, i>>})
               ELSE ModifierLoop(sub.h, vm, n, i + 1, len, w \cup sub.w)

\* The trees of n objects: object 1 is the root, every other object is the
\* child of an earlier one; set members are hashable and pairwise unequal.
ParentMaps(n) == {p \in [2..n -> 1..n] : \A i \in 2..n : p[i] < i}

KidsOf(n, parent, i) ==
    LET ks == {j \in 2..n : parent[j] = i}
    IN  SelectSeq([j \in 1..n |-> j], LAMBDA j : j \in ks)

MakeTree(n, kind, parent) ==
    [i \in 1..n |->
        [kind |-> kind[i],
         kids |-> KidsOf(n, parent, i),
         val |-> IF kind[i] \in LeafKinds THEN i ELSE 0]]

RECURSIVE Hashable(_, _)
\* hash(obj) succeeds: an immutable leaf, or a tuple or frozenset of
\* hashable members.
Hashable(h, i) ==
    /\ h[i].kind \in HashableKinds
    /\ \A j \in DOMAIN Kids(h, i) : Hashable(h, Kids(h, i)[j])

WellFormed(h) ==
    \A i \in DOMAIN h :
        /\ h[i].kind \in LeafKinds => Kids(h, i) = <<>>
        /\ h[i].kind \in SetKinds =>
              /\ \A j \in DOMAIN Kids(h, i) : Hashable(h, Kids(h, i)[j])
              /\ \A j, k \in DOMAIN Kids(h, i) :
                    j # k => ~PyEq(h, Kids(h, i)[j], Kids(h, i)[k])

TreeIdle ==
    /\ tree = <<>>
    /\ tree0 = <<>>
    /\ visit_method = <<>>
    /\ result = 0
    /\ writes = {}
    /\ tpc = "idle"

TreeInit ==
    /\ \E n \in 1..MaxObjects :
          \E kind \in [1..n -> Kinds], parent \in ParentMaps(n) :
              tree = MakeTree(n, kind, parent)
    /\ WellFormed(tree)
    /\ tree0 = tree
    /\ visit_method \in [DOMAIN tree -> VisitMethods]
    /\ \A i \in DOMAIN tree :
          visit_method[i] = "return_node" => tree[i].kind = "Node"
    /\ result = 0
    /\ writes = {}
    /\ tpc = "ready"

\* NodeTranslator().visit(root)
Translate ==
    /\ tpc = "ready"
    /\ LET out == TranslatorVisit(tree, visit_method, 1)
       IN  /\ tree' = out.h
           /\ result' = out.r
    /\ tpc' = "translated"
    /\ UNCHANGED <<tree0, visit_method, writes>>
    /\ UNCHANGED notTree

\* NodeModifier().visit(root)
Modify ==
    /\ tpc = "ready"
    /\ LET out == ModifierVisit(tree, visit_method, 1)
       IN  /\ tree' = out.h
           /\ result' = out.r
           /\ writes' = out.w
    /\ tpc' = "modified"
    /\ UNCHANGED <<tree0, visit_method>>
    /\ UNCHANGED notTree

TreeNext ==
    \/ Translate
    \/ Modify

\* The visit methods of a translating pass: besides the two above, a handler
\* that returns a new value and one that returns eve.NOTHING.
TranslatorHandlers == VisitMethods \cup {"return_new", "return_NOTHING"}

\* A tree and a translator whose handler for one object is any of the four
\* (the other objects get generic_visit).
TranslateInit ==
    /\ \E n \in 1..MaxObjects :
          \E kind \in [1..n -> Kinds], parent \in ParentMaps(n) :
              tree = MakeTree(n, kind, parent)
    /\ WellFormed(tree)
    /\ tree0 = tree
    /\ \E i \in DOMAIN tree, m \in TranslatorHandlers :
          visit_method = [j \in DOMAIN tree |-> IF j = i THEN m ELSE "generic_visit"]
    /\ \A i \in DOMAIN tree :
          visit_method[i] = "return_node" => tree[i].kind = "Node"
    /\ result = 0
    /\ writes = {}
    /\ tpc = "ready"

\* The visit methods of a modifying pass: besides the two of VisitMethods, a
\* handler that returns a new, unequal value and one that returns a new
\* object equal to the node.
ModifierHandlers == VisitMethods \cup {"return_new", "return_equal"}

\* A tree and a modifier whose handler for one object is any of the four
\* (the other objects get generic_visit); a handler that returns the node or
\* a copy of it is one of a Node class.
ModifyInit ==
    /\ \E n \in 1..MaxObjects :
          \E kind \in [1..n -> Kinds], parent \in ParentMaps(n) :
              tree = MakeTree(n, kind, parent)
    /\ WellFormed(tree)
    /\ tree0 = tree
    /\ \E i \in DOMAIN tree, m \in ModifierHandlers :
          visit_method = [j \in DOMAIN tree |-> IF j = i THEN m ELSE "generic_visit"]
    /\ \A i \in DOMAIN tree :
          visit_method[i] \in {"return_node", "return_equal"} => tree[i].kind = "Node"
    /\ result = 0
    /\ writes = {}
    /\ tpc = "ready"

(***************************************************************************)
(* Type-derived validators: strict_type_attrs_validator and its validators *)
(***************************************************************************)

\* Most items in a container value.
MaxItems == 2

\* Most arguments of a Union[...], Tuple[...] or Literal[...] annotation.
MaxHintArgs == 2

\* --- Python values: class t, payload v, members items ---
Val(t, v, items) == [t |-> t, v |-> v, items |-> items]
PyBool(b) == Val("bool", IF b THEN 1 ELSE 0, <<>>)
PyInt(n) == Val("int", n, <<>>)
\* a one-character string, v its character code ('5' is PyStr(5))
PyStr(c) == Val("str", c, <<>>)
PyNone == Val("NoneType", 0, <<>>)
\* an instance of a data model class
Inst(cls) == Val(cls, 0, <<>>)
PyTuple(items) == Val("tuple", 0, items)
PyList(items) == Val("list", 0, items)
PySet(items) == Val("set", 0, items)
\* a dict as the sequence of its (key, value) entries
PyDict(entries) == Val("dict", 0, entries)
Entry(k, v) == Val("entry", 0, <<k, v>>)

\* AltBasic is a second class declared with the same fields as Basic.
Atoms ==
    {PyBool(TRUE), PyInt(1), PyInt(5), PyStr(5), PyNone, Inst("Basic"), Inst("AltBasic")}

ItemAtoms == {PyBool(TRUE), PyInt(5), PyStr(5), PyNone, PyList(<<PyInt(5)>>)}

ItemSeqs == UNION {[1..n -> ItemAtoms] : n \in 0..MaxItems}

Values ==
    Atoms
        \cup {PyTuple(s) : s \in ItemSeqs}
        \cup {PyList(s) : s \in ItemSeqs}
        \cup {PySet(s) : s \in {<<>>} \cup {<<a>> : a \in ItemAtoms}}
        \cup {PyDict(s) : s \in {<<>>} \cup {<<Entry(k, v)>> : k, v \in ItemAtoms}}

RECURSIVE PyEqVal(_, _)
\* a == b for values: bool and int compare as numbers (True == 1), other
\* values are equal when of one class with equal contents.
PyEqVal(a, b) ==
    IF a.t \in {"bool", "int"} /\ b.t \in {"bool", "int"} THEN a.v = b.v
    ELSE /\ a.t = b.t
         /\ a.v = b.v
         /\ Len(a.items) = Len(b.items)
         /\ \A i \in DOMAIN a.items : PyEqVal(a.items[i], b.items[i])

\* a is b, for b one of the two bool objects
IsSameBool(a, b) == a.t = "bool" /\ a.v = b.v

\* isinstance(value, cls), with bool a subclass of int and the abstract
\* classes of collections.abc
IsInstance(val, cls) ==
    \/ val.t = cls
    \/ cls = "int" /\ val.t = "bool"
    \/ cls = "Sequence" /\ val.t \in {"list", "tuple", "str"}
    \/ cls = "Iterable" /\ val.t \in {"list", "tuple", "str", "set", "dict"}

\* for member in value: the members of a container; a one-character string
\* yields itself.
Members(val) ==
    IF val.t = "str" THEN <<val>>
    ELSE IF val.t = "dict" THEN [i \in DOMAIN val.items |-> val.items[i].items[1]]
    ELSE val.items

\* --- type hints: kind k, class or origin name, arguments, literals ---
Hint(k, name, args, lits) == [k |-> k, name |-> name, args |-> args, lits |-> lits]
\* a plain class used as annotation
Cls(name) == Hint("class", name, <<>>, <<>>)
\* typing.TypeVar: name is the bound's name, "" when unbound
TypeVarHint(bound) == Hint("TypeVar", bound, <<>>, <<>>)
\* typing.Any, an object that is no class (as in Python before 3.11)
AnyHint == Hint("Any", "", <<>>, <<>>)
\* typing.Literal[...]
LiteralHint(lits) == Hint("alias", "Literal", <<>>, lits)
\* a subscripted generic: origin[args]
Alias(origin, args) == Hint("alias", origin, args, <<>>)
\* the Ellipsis of Tuple[T, ...]
EllipsisArg == Hint("Ellipsis", "", <<>>, <<>>)
\* an annotation that is no type at all (such as the number 5)
NotAType == Hint("object", "", <<>>, <<>>)

\* typing.get_origin(type_hint) / typing.get_args(type_hint)
GetOrigin(h) == IF h.k = "alias" THEN h.name ELSE "None"
GetArgs(h) == h.args

\* isinstance(origin_type, type): the origins that are classes
OriginIsClass(origin) == origin \in {"tuple", "list", "set", "Sequence", "dict", "Iterable"}

LiteralValues == {PyBool(TRUE), PyInt(1), PyInt(5)}

LeafHints ==
    {Cls("int"), Cls("str"), Cls("NoneType"), Cls("Basic")}
        \cup {LiteralHint(<<l>>) : l \in {PyBool(TRUE), PyInt(5)}}

ArgHints ==
    {Cls("int"), Cls("str"), Cls("NoneType"), LiteralHint(<<PyBool(TRUE)>>),
     Alias("Iterable", <<Cls("int")>>)}

HintArgSeqs == UNION {[1..n -> ArgHints] : n \in 1..MaxHintArgs}

Hints ==
    LeafHints
        \cup {Cls("bool"), AnyHint, TypeVarHint(""), TypeVarHint("int"), NotAType}
        \cup {LiteralHint(s) : s \in UNION {[1..n -> LiteralValues] : n \in 1..MaxHintArgs}}
        \cup {Alias("Union", s) : s \in {t \in HintArgSeqs : Len(t) >= 2}}
        \cup {Alias("tuple", s) : s \in HintArgSeqs}
        \cup {Alias("tuple", <<a, EllipsisArg>>) : a \in ArgHints}
        \cup {Alias(o, <<a>>) : o \in {"list", "set", "Sequence", "Iterable"}, a \in ArgHints}
        \cup {Alias("dict", <<k, v>>) : k, v \in {Cls("int"), Cls("str")}}

\* --- validators: kind k, class, sub-validators, literal, error type ---
Validator(k, cls, subs, lit, err) ==
    [k |-> k, cls |-> cls, subs |-> subs, lit |-> lit, err |-> err]
\* attr.validators.instance_of(cls)
InstanceOf(cls) == Validator("instance_of", cls, <<>>, PyNone, "TypeError")
\* empty_attrs_validator
EmptyValidator == Validator("empty", "", <<>>, PyNone, "")
\* the None a function returns when it falls off its end
NoValidator == Validator("none", "", <<>>, PyNone, "")
\* strict_type_attrs_validator raised TypeError instead of returning
Unsupported == Validator("raise", "", <<>>, PyNone, "TypeError")

AnyUnsupported(subs) == \E i \in DOMAIN subs : subs[i].k = "raise"

\* or_attrs_validator(*validators, error_type): one validator is returned as
\* it is, several become an _OrValidator.
OrAttrsValidator(vals, error_type) ==
    IF Len(vals) = 1 THEN vals[1]
    ELSE Validator("or", "", vals, PyNone, error_type)

\* literal_type_attrs_validator(type_args)
LiteralTypeAttrsValidator(lits) ==
    OrAttrsValidator([i \in DOMAIN lits |->
                         Validator("literal", "", <<>>, lits[i], "ValueError")],
                     "ValueError")

RECURSIVE StrictTypeAttrsValidator(_)
\* strict_type_attrs_validator(type_hint), lines 161-208, with
\* tuple_type_attrs_validator (140-148) and union_type_attrs_validator
\* (151-158).  A sub-call that raises makes the whole call raise.
StrictTypeAttrsValidator(h) ==
    LET origin_type == GetOrigin(h)
        type_args == GetArgs(h)
        subs == [i \in DOMAIN type_args |->
                    IF type_args[i].k = "Ellipsis" THEN EmptyValidator
                    ELSE StrictTypeAttrsValidator(type_args[i])]
    IN  IF h.k = "class" THEN InstanceOf(h.name)
        ELSE IF h.k = "TypeVar"
            THEN IF h.name # "" THEN InstanceOf(h.name) ELSE EmptyValidator
        ELSE IF h.k = "Any" THEN EmptyValidator
        ELSE IF origin_type = "Literal" THEN LiteralTypeAttrsValidator(h.lits)
        ELSE IF origin_type = "Union"
            THEN IF Len(type_args) = 2 /\ type_args[2] = Cls("NoneType")
                   THEN IF subs[1].k = "raise" THEN Unsupported
                        ELSE Validator("optional", "", <<subs[1]>>, PyNone, "")
                   ELSE IF AnyUnsupported(subs) THEN Unsupported
                        ELSE OrAttrsValidator(subs, "TypeError")
        ELSE IF OriginIsClass(origin_type)
            THEN IF origin_type = "tuple"
                   THEN IF Len(type_args) = 2 /\ type_args[2].k = "Ellipsis"
                          THEN IF subs[1].k = "raise" THEN Unsupported
                               ELSE Validator("deep_iterable", "tuple", <<subs[1]>>,
                                              PyNone, "")
                          ELSE IF AnyUnsupported(subs) THEN Unsupported
                               ELSE Validator("tuple", "tuple", subs, PyNone, "TypeError")
                 ELSE IF origin_type \in {"list", "set", "Sequence"}
                   THEN IF subs[1].k = "raise" THEN Unsupported
                        ELSE Validator("deep_iterable", origin_type, <<subs[1]>>,
                                       PyNone, "")
                 ELSE IF origin_type \in {"dict"}
                   THEN IF AnyUnsupported(subs) THEN Unsupported
                        ELSE Validator("deep_mapping", origin_type, subs, PyNone, "")
                 ELSE NoValidator
        ELSE Unsupported

\* --- running a validator: "ok" or the exception; names says whether the
\* message holds attribute.name, pos is the tuple position it reports ---
Passed == [exc |-> "ok", names |-> FALSE, pos |-> -1]
Raised(exc, names, pos) == [exc |-> exc, names |-> names, pos |-> pos]

\* The first outcome of the sequence that is an exception, with its index.
FirstFailure(outs) ==
    IF \A i \in DOMAIN outs : outs[i].exc = "ok" THEN 0
    ELSE CHOOSE i \in DOMAIN outs :
            /\ outs[i].exc # "ok"
            /\ \A j \in DOMAIN outs : j < i => outs[j].exc = "ok"

\* The literal is matched by equality whatever its class.
LiteralMatchesByEquality(literal, val) == PyEqVal(val, literal)

\* _LiteralValidator.__call__: identity for a bool literal, equality otherwise
LiteralMatches(literal, val) ==
    IF literal.t = "bool" THEN IsSameBool(val, literal)
    ELSE PyEqVal(val, literal)

RECURSIVE RunValidator(_, _)
\* validator(instance, attribute, value)
RunValidator(vd, val) ==
    LET sub(i, x) == RunValidator(vd.subs[i], x)
    IN  CASE vd.k = "instance_of" ->
                IF IsInstance(val, vd.cls) THEN Passed
                ELSE Raised("TypeError", TRUE, -1)
          [] vd.k = "empty" -> Passed
          [] vd.k = "none" ->
                \* calling None: TypeError "'NoneType' object is not callable"
                Raised("TypeError", FALSE, -1)
          [] vd.k = "literal" ->
                IF LiteralMatches(vd.lit, val) THEN Passed
                ELSE Raised("ValueError", TRUE, -1)
          [] vd.k = "or" ->
                \* _OrValidator: the first validator that passes wins
                IF \E i \in DOMAIN vd.subs : sub(i, val).exc = "ok" THEN Passed
                ELSE Raised(vd.err, TRUE, -1)
          [] vd.k = "optional" ->
                \* attr.validators.optional
                IF val = PyNone THEN Passed ELSE sub(1, val)
          [] vd.k = "tuple" ->
                \* _TupleValidator
                IF ~IsInstance(val, vd.cls) THEN Raised("TypeError", TRUE, -1)
                ELSE IF Len(val.items) # Len(vd.subs) THEN Raised("TypeError", TRUE, -1)
                ELSE LET outs == [i \in DOMAIN vd.subs |-> sub(i, val.items[i])]
                         f == FirstFailure(outs)
                     IN  IF f = 0 THEN Passed ELSE Raised("TypeError", TRUE, f - 1)
          [] vd.k = "deep_iterable" ->
                \* attr.validators.deep_iterable: the container, then each member
                IF ~IsInstance(val, vd.cls) THEN Raised("TypeError", TRUE, -1)
                ELSE LET ms == Members(val)
                         outs == [i \in DOMAIN ms |-> sub(1, ms[i])]
                         f == FirstFailure(outs)
                     IN  IF f = 0 THEN Passed ELSE outs[f]
          [] vd.k = "deep_mapping" ->
                \* attr.validators.deep_mapping: the mapping, then key and
                \* value of each entry in turn
                IF ~IsInstance(val, vd.cls) THEN Raised("TypeError", TRUE, -1)
                ELSE LET outs == [i \in 1..(2 * Len(val.items)) |->
                                     IF i % 2 = 1
                                       THEN sub(1, val.items[(i + 1) \div 2].items[1])
                                       ELSE sub(2, val.items[i \div 2].items[2])]
                         f == FirstFailure(outs)
                     IN  IF f = 0 THEN Passed ELSE outs[f]

\* The loop over every member validator, whatever the earlier ones did.
AllMembersCalled(vd, val) == Len(vd.subs)

\* How many of its member validators a _TupleValidator (lines 72-74) or an
\* _OrValidator (lines 91-97) calls: the tuple loop ends at the first
\* exception, the or loop at the first validator that returns.
MemberCalls(vd, val) ==
    CASE vd.k = "tuple" ->
            IF ~IsInstance(val, vd.cls) \/ Len(val.items) # Len(vd.subs) THEN 0
            ELSE LET outs == [i \in DOMAIN vd.subs |->
                                 RunValidator(vd.subs[i], val.items[i])]
                 IN  IF FirstFailure(outs) = 0 THEN Len(vd.subs)
                     ELSE FirstFailure(outs)
      [] vd.k = "or" ->
            LET passing == {i \in DOMAIN vd.subs :
                               RunValidator(vd.subs[i], val).exc = "ok"}
            IN  IF passing = {} THEN Len(vd.subs)
                ELSE CHOOSE i \in passing : \A j \in passing : i <= j
      [] OTHER -> 0

\* The validation of one field by the generated __init__: a field whose
\* validator is None is not validated at all.
ValidateField(vd, val) ==
    IF vd.k = "none" THEN Passed ELSE RunValidator(vd, val)

NoOutcome == [exc |-> "", names |-> FALSE, pos |-> -1]

ValIdle ==
    /\ type_hint = NotAType
    /\ field_value = PyNone
    /\ type_validator = NoValidator
    /\ outcome = NoOutcome
    /\ calls = 0
    /\ vpc = "idle"

\* A class body with one annotated field, and a value for it.
ValInit ==
    /\ type_hint \in Hints
    /\ field_value \in Values
    /\ type_validator = NoValidator
    /\ outcome = NoOutcome
    /\ calls = 0
    /\ vpc = "annotated"

\* datamodel(), lines 470-477: the type validator of the field is derived
\* and the class is made.
DeclareField ==
    /\ vpc = "annotated"
    /\ StrictTypeAttrsValidator(type_hint).k # "raise"
    /\ type_validator' = StrictTypeAttrsValidator(type_hint)
    /\ vpc' = "declared"
    /\ UNCHANGED <<type_hint, field_value, outcome, calls>>
    /\ UNCHANGED notVal

\* datamodel(), lines 470-473: strict_type_attrs_validator raises TypeError,
\* the declaration fails.
RejectDeclaration ==
    /\ vpc = "annotated"
    /\ StrictTypeAttrsValidator(type_hint).k = "raise"
    /\ outcome' = Raised("TypeError", FALSE, -1)
    /\ vpc' = "rejected"
    /\ UNCHANGED <<type_hint, field_value, type_validator, calls>>
    /\ UNCHANGED notVal

\* Model(field=value): the generated __init__ assigns the field and runs its
\* validator.
ConstructWithValue ==
    /\ vpc = "declared"
    /\ outcome' = ValidateField(type_validator, field_value)
    /\ calls' = MemberCalls(type_validator, field_value)
    /\ vpc' = "constructed"
    /\ UNCHANGED <<type_hint, field_value, type_validator>>
    /\ UNCHANGED notVal

ValNext ==
    \/ DeclareField
    \/ RejectDeclaration
    \/ ConstructWithValue

(***************************************************************************)
(* Construction: the generated __init__, validators and __post_init__      *)
(***************************************************************************)

\* Most fields of a class.
MaxFields == 2

\* Most root validators of a class.
MaxRootValidators == 2

\* How many @validator functions a class body may hold for one field.
DecoratedCounts == 0..2

\* A field: whether its attr.ib came with a validator of its own, and how
\* many @validator(name) functions the class body defines for it.
FieldDecls == [attrib_validator : BOOLEAN, decorated : DecoratedCounts]

\* A class as it is declared.  A generic class is declared Generic[T] with
\* its first field annotated T; specialized is set for a class that
\* __concretize__ has made (it carries __origin__ and __args__).
Entities ==
    [instantiable : BOOLEAN,
     generic : BOOLEAN,
     specialized : {FALSE},
     fields : UNION {[1..n -> FieldDecls] : n \in 1..MaxFields},
     root_validators : 0..MaxRootValidators,
     has_post_init : BOOLEAN]

\* Model(), Model(1), Model(a=1) with every field named, Model(zz=1)
ArgShapes == {"none", "positional", "keywords", "unknown_keyword"}

\* One check of the construction.
Step(kind, f, idx) == [kind |-> kind, field |-> f, idx |-> idx]

\* The composition that runs the checks of b first.
AndValidatorsReversed(a, b) == b \o a

\* attr._make.and_(a, b) and _CountingAttr.validator: the checks of b run
\* after the checks of a.
AndValidators(a, b) == a \o b

\* lines 470-485: the type validator alone, or and_(type_validator, the
\* validator the attr.ib already had).
TypedFieldValidator(fd, f) ==
    IF fd.attrib_validator
        THEN AndValidators(<<Step("type", f, 0)>>, <<Step("attrib", f, 0)>>)
        ELSE <<Step("type", f, 0)>>

\* lines 505-511: field_validators[field_name] = member keeps, for one
\* field, the function the class body defines last.
CollectedFieldValidator(fd, f) ==
    IF fd.decorated = 0 THEN <<>> ELSE <<Step("user", f, fd.decorated)>>

\* lines 517-533: field_attrib.validator(field_validator) adds it behind the
\* validators the field already has.
FieldValidator(fd, f) ==
    IF CollectedFieldValidator(fd, f) = <<>> THEN TypedFieldValidator(fd, f)
    ELSE AndValidators(TypedFieldValidator(fd, f), CollectedFieldValidator(fd, f))

RECURSIVE FieldChecks(_, _)
\* The generated __init__ calls the validator of each attribute, in the
\* order of the attributes.
FieldChecks(fields, f) ==
    IF f > Len(fields) THEN <<>>
    ELSE FieldValidator(fields[f], f) \o FieldChecks(fields, f + 1)

\* _make_post_init, lines 278-294: the root validators in the order of
\* __datamodel_validators__, then self.__post_init__() if the class body has one.
AttrsPostInit(e) ==
    [i \in 1..e.root_validators |-> Step("root", 0, i)]
        \o (IF e.has_post_init THEN <<Step("post_init", 0, 0)>> ELSE <<>>)

\* What the __init__ attr.define generates runs once the arguments are bound.
AttrsInit(e) == FieldChecks(e.fields, 1) \o AttrsPostInit(e)

\* attr.define replaces the __init__ line 545 has set.
GeneratedInit(e) == "attrs_init"

\* lines 543-548 and 559: a class declared instantiable=False gets the raising
\* __init__, and attr.define leaves an __init__ of the class body alone.
ClassInit(e) ==
    IF ~e.instantiable THEN "non_instantiable_init" ELSE "attrs_init"

\* cls.__is_generic__, line 555
ClassIsGeneric(e) == e.generic

\* The class __concretize__ makes from a generic class for concrete type
\* arguments (lines 329-365): types.new_class with the generic class as base
\* runs datamodel() on it through DataModel.__init_subclass__ with the default
\* instantiable=True; its __parameters__ are empty; its body holds only the
\* annotation of the field that was typed T, which is declared anew with its
\* type validator, and no __post_init__; the other fields and the root
\* validators are inherited.
ConcretizedEntity(e) ==
    [instantiable |-> TRUE,
     generic |-> FALSE,
     specialized |-> TRUE,
     fields |-> [f \in DOMAIN e.fields |->
                    IF f = 1 THEN [attrib_validator |-> FALSE, decorated |-> 0]
                    ELSE e.fields[f]],
     root_validators |-> e.root_validators,
     has_post_init |-> FALSE]

NoError == [exc |-> "", about |-> "", at |-> 0]

CtorIdle ==
    /\ entity = [instantiable |-> TRUE, generic |-> FALSE, specialized |-> FALSE,
                 fields |-> <<>>, root_validators |-> 0, has_post_init |-> FALSE]
    /\ call_args = "none"
    /\ steps_run = <<>>
    /\ ctor_error = NoError
    /\ cpc = "idle"

CtorInit ==
    /\ entity \in Entities
    /\ call_args \in ArgShapes
    /\ steps_run = <<>>
    /\ ctor_error = NoError
    /\ cpc = "declared"

\* E[int] / E.__concretize__(int) on a generic class: the checks of lines
\* 315-327 pass and the concrete class is made; it is the class constructed
\* from here on.
Specialize ==
    /\ cpc = "declared"
    /\ ClassIsGeneric(entity)
    /\ entity' = ConcretizedEntity(entity)
    /\ UNCHANGED <<call_args, steps_run, ctor_error, cpc>>
    /\ UNCHANGED notCtor

\* _make_non_instantiable_init, lines 271-275: __init__(self, *args, **kwargs)
\* raises TypeError with the name of the class.
RaiseNonInstantiable ==
    /\ cpc = "declared"
    /\ ClassInit(entity) = "non_instantiable_init"
    /\ ctor_error' = [exc |-> "TypeError", about |-> "entity", at |-> 0]
    /\ cpc' = "raised"
    /\ UNCHANGED <<entity, call_args, steps_run>>
    /\ UNCHANGED notCtor

\* The generated __init__ is keyword-only (line 36) and every field is
\* required: any other call fails to bind with TypeError.
RaiseBadArguments ==
    /\ cpc = "declared"
    /\ ClassInit(entity) = "attrs_init"
    /\ call_args # "keywords"
    /\ ctor_error' = [exc |-> "TypeError", about |-> "arguments", at |-> 0]
    /\ cpc' = "raised"
    /\ UNCHANGED <<entity, call_args, steps_run>>
    /\ UNCHANGED notCtor

\* The generated __init__ binds the arguments and assigns the fields.
AssignFields ==
    /\ cpc = "declared"
    /\ ClassInit(entity) = "attrs_init"
    /\ call_args = "keywords"
    /\ cpc' = "running"
    /\ UNCHANGED <<entity, call_args, steps_run, ctor_error>>
    /\ UNCHANGED notCtor

\* The next check runs and returns.
CheckPasses ==
    /\ cpc = "running"
    /\ Len(steps_run) < Len(AttrsInit(entity))
    /\ steps_run' = Append(steps_run, AttrsInit(entity)[Len(steps_run) + 1])
    /\ UNCHANGED <<entity, call_args, ctor_error, cpc>>
    /\ UNCHANGED notCtor

\* The next check runs and raises: the exception leaves __init__.
CheckRaises ==
    /\ cpc = "running"
    /\ Len(steps_run) < Len(AttrsInit(entity))
    /\ LET step == AttrsInit(entity)[Len(steps_run) + 1]
       IN  /\ steps_run' = Append(steps_run, step)
           /\ ctor_error' = [exc |-> IF step.kind = "type" THEN "TypeError"
                                     ELSE "ValueError",
                             about |-> step.kind,
                             at |-> Len(steps_run) + 1]
    /\ cpc' = "raised"
    /\ UNCHANGED <<entity, call_args>>
    /\ UNCHANGED notCtor

\* __init__ is through: the caller gets the instance.
ReturnInstance ==
    /\ cpc = "running"
    /\ Len(steps_run) = Len(AttrsInit(entity))
    /\ cpc' = "returned"
    /\ UNCHANGED <<entity, call_args, steps_run, ctor_error>>
    /\ UNCHANGED notCtor

CtorNext ==
    \/ Specialize
    \/ RaiseNonInstantiable
    \/ RaiseBadArguments
    \/ AssignFields
    \/ CheckPasses
    \/ CheckRaises
    \/ ReturnInstance

(***************************************************************************)
(* NodeVisitor.visit: dispatch on the class of the node                    *)
(***************************************************************************)

\* Most classes between the class of a node and Node.
MaxDerived == 2

\* Classes derived from Node, the most derived first: D3(D2), D2(D1), D1(Node).
DerivedClasses == <<"D3", "D2", "D1">>

\* The tail of every mro of a Node class: Node and the classes after it.
NodeBases == <<"Node", "DataModel", "object">>

\* node.__class__.__mro__ for a node whose class is k classes away from Node
\* (k = 0: an instance of Node itself).
NodeMro(k) ==
    SubSeq(DerivedClasses, Len(DerivedClasses) - k + 1, Len(DerivedClasses))
        \o NodeBases

\* The mro of the values visited: nodes, and a list as a value that is no Node.
Mros == {NodeMro(k) : k \in 0..MaxDerived} \cup {<<"list", "object">>}

ClassNames == {"D3", "D2", "D1", "Node", "DataModel", "object", "list"}

\* isinstance(node, Node)
IsNode(mro) == \E i \in DOMAIN mro : mro[i] = "Node"

DispatchIdle ==
    /\ node_mro = <<>>
    /\ handlers = {}
    /\ consulted = <<>>
    /\ visitor = ""
    /\ mro_index = 0
    /\ dpc = "idle"

\* visitor = self.generic_visit (line 76) for some node and some visitor object.
DispatchInit ==
    /\ node_mro \in Mros
    /\ handlers \in SUBSET ClassNames
    /\ consulted = <<>>
    /\ visitor = "generic_visit"
    /\ mro_index = 0
    /\ dpc = "start"

\* lines 78-81: hasattr(self, "visit_" + node.__class__.__name__); without it
\* the mro is walked for a Node, and any other value keeps generic_visit.
LookupOwnClass ==
    /\ dpc = "start"
    /\ consulted' = Append(consulted, node_mro[1])
    /\ IF node_mro[1] \in handlers
         THEN visitor' = node_mro[1] /\ dpc' = "call" /\ UNCHANGED mro_index
         ELSE IF IsNode(node_mro)
           THEN mro_index' = 2 /\ dpc' = "walk" /\ UNCHANGED visitor
           ELSE dpc' = "call" /\ UNCHANGED <<visitor, mro_index>>
    /\ UNCHANGED <<node_mro, handlers>>
    /\ UNCHANGED notDispatch

\* lines 82-86: the class has a handler: it is taken and the loop ends.
WalkFound ==
    /\ dpc = "walk"
    /\ mro_index <= Len(node_mro)
    /\ node_mro[mro_index] \in handlers
    /\ consulted' = Append(consulted, node_mro[mro_index])
    /\ visitor' = node_mro[mro_index]
    /\ dpc' = "call"
    /\ UNCHANGED <<node_mro, handlers, mro_index>>
    /\ UNCHANGED notDispatch

\* lines 82-89: no handler and the class is not Node: on to the next class.
WalkNext ==
    /\ dpc = "walk"
    /\ mro_index <= Len(node_mro)
    /\ node_mro[mro_index] \notin handlers
    /\ node_mro[mro_index] # "Node"
    /\ consulted' = Append(consulted, node_mro[mro_index])
    /\ mro_index' = mro_index + 1
    /\ UNCHANGED <<node_mro, handlers, visitor, dpc>>
    /\ UNCHANGED notDispatch

\* lines 88-89: no handler and node_class is Node: break.
WalkStopAtNode ==
    /\ dpc = "walk"
    /\ mro_index <= Len(node_mro)
    /\ node_mro[mro_index] \notin handlers
    /\ node_mro[mro_index] = "Node"
    /\ consulted' = Append(consulted, node_mro[mro_index])
    /\ dpc' = "call"
    /\ UNCHANGED <<node_mro, handlers, visitor, mro_index>>
    /\ UNCHANGED notDispatch

\* line 82: the mro is exhausted, the for loop ends.
WalkExhausted ==
    /\ dpc = "walk"
    /\ mro_index > Len(node_mro)
    /\ dpc' = "call"
    /\ UNCHANGED <<node_mro, handlers, consulted, visitor, mro_index>>
    /\ UNCHANGED notDispatch

\* line 91: return visitor(node, **kwargs)
CallVisitor ==
    /\ dpc = "call"
    /\ dpc' = "done"
    /\ UNCHANGED <<node_mro, handlers, consulted, visitor, mro_index>>
    /\ UNCHANGED notDispatch

DispatchNext ==
    \/ LookupOwnClass
    \/ WalkFound
    \/ WalkNext
    \/ WalkStopAtNode
    \/ WalkExhausted
    \/ CallVisitor

(***************************************************************************)
(* Assignment to a field of a data model instance                          *)
(***************************************************************************)

\* The keyword arguments of datamodel() / DataModel.__init_subclass__ that
\* concern the instances (lines 439-447, 573-596).
DeclarationOptions == [eq : BOOLEAN, order : BOOLEAN, frozen : BOOLEAN]

\* What attr.define is called with, line 559: _ATTR_SETTINGS (line 36) and
\* nothing else, so frozen keeps the default of attr.define whatever the
\* declaration says.
AttrSettings(opts) ==
    [auto_attribs |-> TRUE, slots |-> FALSE, kw_only |-> TRUE, frozen |-> FALSE]

\* The field of the model: x: int
FieldHint == Cls("int")

\* The value passes the validator of the field.
HasFieldType(v) == ValidateField(StrictTypeAttrsValidator(FieldHint), v) = Passed

SetattrIdle ==
    /\ options = [eq |-> TRUE, order |-> FALSE, frozen |-> FALSE]
    /\ x_before = PyNone
    /\ x_now = PyNone
    /\ assigned = PyNone
    /\ setattr_error = ""
    /\ apc = "idle"

\* An instance constructed with a valid value for x, and a value to assign.
SetattrInit ==
    /\ options \in DeclarationOptions
    /\ x_before \in {v \in Atoms : HasFieldType(v)}
    /\ x_now = x_before
    /\ assigned \in Atoms
    /\ setattr_error = ""
    /\ apc = "constructed"

\* instance.x = assigned on a class that is not frozen for attr.define: the
\* validator of the field passes and the value is stored.
AssignStores ==
    /\ apc = "constructed"
    /\ ~AttrSettings(options).frozen
    /\ ValidateField(StrictTypeAttrsValidator(FieldHint), assigned) = Passed
    /\ x_now' = assigned
    /\ apc' = "assigned"
    /\ UNCHANGED <<options, x_before, assigned, setattr_error>>
    /\ UNCHANGED notSetattr

\* instance.x = assigned: the validator of the field raises, nothing is stored.
AssignRejected ==
    /\ apc = "constructed"
    /\ ~AttrSettings(options).frozen
    /\ ValidateField(StrictTypeAttrsValidator(FieldHint), assigned) # Passed
    /\ setattr_error' = ValidateField(StrictTypeAttrsValidator(FieldHint), assigned).exc
    /\ apc' = "assigned"
    /\ UNCHANGED <<options, x_before, x_now, assigned>>
    /\ UNCHANGED notSetattr

SetattrNext ==
    \/ AssignStores
    \/ AssignRejected

(***************************************************************************)
(* generic_visit on one sequence, set or mapping whose members are atoms:  *)
(* NodeTranslator (visitors.py 132-164) and, for a mutable set or mapping, *)
(* NodeModifier (visitors.py 186-248).                                     *)
(***************************************************************************)

\* Most entries of a visited container.
MaxEntries == 2

\* The Python tuple (idx, v) of an index and an atom, as a value of its own.
PairValue(idx, v) == 10 * (idx + 1) + v

\* The values a container holds and a handler returns: two atoms and the
\* tuple (0, 1).
CollValues == {1, 2, PairValue(0, 1)}

\* The keys of a mapping.
CollKeys == 1..MaxEntries

\* Sequences over S of at most n members.
SeqsUpTo(S, n) == UNION {[1..k -> S] : k \in 0..n}

\* Sequences over S of at most n members, no member twice.
DistinctSeqs(S, n) ==
    {s \in SeqsUpTo(S, n) : \A i, j \in DOMAIN s : s[i] = s[j] => i = j}

\* The containers visited.  values lists the elements of a sequence, the
\* members of a set in its iteration order, or the values of a mapping in the
\* order of its keys.
Collections ==
    {[kind |-> k, keys |-> <<>>, values |-> s] :
        k \in {"list", "tuple"}, s \in SeqsUpTo(CollValues, MaxEntries)}
    \cup {[kind |-> k, keys |-> <<>>, values |-> s] :
        k \in SetKinds, s \in DistinctSeqs(CollValues, MaxEntries)}
    \cup UNION {{[kind |-> k, keys |-> ks, values |-> s] :
                    k \in MappingKinds, s \in [DOMAIN ks -> CollValues]} :
                ks \in DistinctSeqs(CollKeys, MaxEntries)}

\* No container.
NoCollection == [kind |-> "", keys |-> <<>>, values |-> <<>>]

\* The members of s in order, each once: what building a set from s keeps.
Dedup(s) ==
    LET F[i \in 0..Len(s)] ==
            IF i = 0 THEN <<>>
            ELSE IF \E j \in DOMAIN F[i - 1] : F[i - 1][j] = s[i]
                   THEN F[i - 1]
                   ELSE Append(F[i - 1], s[i])
    IN  F[Len(s)]

\* tmp_items: the result of self.visit for each value, in iteration order
\* (lines 149 and 156).
TmpItems(c, vr) == [i \in DOMAIN c.values |-> vr[c.values[i]]]

\* The positions with no filter at all.
AllPositions(results) == [i \in DOMAIN results |-> i]

\* The positions whose result is not NOTHING (the filters of lines 151, 158).
KeptPositions(results) ==
    SelectSeq([i \in DOMAIN results |-> i], LAMBDA i : results[i] # NOTHING)

\* NodeTranslator.generic_visit on a sequence or set (lines 147-152) and on a
\* mapping (lines 154-159): node.__class__(...) of the results kept.
TranslatorRebuild(c, vr) ==
    LET results == TmpItems(c, vr)
        kept == KeptPositions(results)
        vals == [j \in DOMAIN kept |-> results[kept[j]]]
    IN  [kind |-> c.kind,
         keys |-> IF c.kind \in MappingKinds
                    THEN [j \in DOMAIN kept |-> c.keys[kept[j]]]
                    ELSE <<>>,
         values |-> IF c.kind \in SetKinds THEN Dedup(vals) ELSE vals]

\* The sequence s without its position p.
WithoutPosition(s, p) ==
    [k \in 1..(Len(s) - 1) |-> IF k < p THEN s[k] ELSE s[k + 1]]

\* The position of member v in the sequence s, 0 if it is not a member.
PositionOf(s, v) ==
    IF \E i \in DOMAIN s : s[i] = v THEN CHOOSE i \in DOMAIN s : s[i] = v ELSE 0

PassIdle ==
    /\ coll = NoCollection
    /\ coll0 = NoCollection
    /\ visit_result = <<>>
    /\ engine = ""
    /\ output = NoCollection
    /\ snapshot = <<>>
    /\ di_used = 0
    /\ cursor = 0
    /\ pass_error = ""
    /\ ppc = "idle"

\* A container, a visitor class and the results of its handlers.  The
\* modifier is given a mutable set or a mutable mapping here.
PassInit ==
    /\ coll \in Collections
    /\ coll0 = coll
    /\ visit_result \in [CollValues -> CollValues \cup {NOTHING}]
    /\ engine \in {"NodeTranslator", "NodeModifier"}
    /\ engine = "NodeModifier" => coll.kind \in MutableSetKinds \cup MutableMappingKinds
    /\ output = NoCollection
    /\ snapshot = <<>>
    /\ di_used = 0
    /\ cursor = 0
    /\ pass_error = ""
    /\ ppc = "ready"

\* NodeTranslator.generic_visit(node): lines 147-159.
PassTranslate ==
    /\ ppc = "ready"
    /\ engine = "NodeTranslator"
    /\ output' = TranslatorRebuild(coll, visit_result)
    /\ ppc' = "returned"
    /\ UNCHANGED <<coll, coll0, visit_result, engine, snapshot, di_used, cursor, pass_error>>
    /\ UNCHANGED notPass

\* NodeModifier.generic_visit(node) up to the loop of line 241: items is
\* list(enumerate(node)) for a set (line 213) and the live view node.items()
\* for a mapping (line 222), whose iterator records the size of the dict.
PassStart ==
    /\ ppc = "ready"
    /\ engine = "NodeModifier"
    /\ snapshot' = IF coll.kind \in MutableSetKinds
                     THEN [i \in DOMAIN coll.values |-> <<i - 1, coll.values[i]>>]
                     ELSE <<>>
    /\ di_used' = Len(coll.values)
    /\ cursor' = 0
    /\ ppc' = "loop"
    /\ UNCHANGED <<coll, coll0, visit_result, engine, output, pass_error>>
    /\ UNCHANGED notPass

\* The iterator of the loop of line 241 yields a next (key, value).
PassHasNext ==
    IF coll.kind \in MutableSetKinds
        THEN cursor < Len(snapshot)
        ELSE Len(coll.keys) = di_used /\ cursor < Len(coll.keys)

\* The iterator of the loop of line 241 is exhausted.
PassExhausted ==
    IF coll.kind \in MutableSetKinds
        THEN cursor = Len(snapshot)
        ELSE Len(coll.keys) = di_used /\ cursor = Len(coll.keys)

\* The (key, value) the iterator yields.
PassItem ==
    IF coll.kind \in MutableSetKinds
        THEN snapshot[cursor + 1]
        ELSE <<coll.keys[cursor + 1], coll.values[cursor + 1]>>

\* What del_op removes from a set: container.remove(items[idx]) (line 219),
\* where items[idx] is the tuple (idx, value) of the snapshot.
RemovedMember(idx, v) == PairValue(idx, v)

\* Lines 243-244 when del_op succeeds: operator.delitem(node, key) for a
\* mapping, container.remove(items[idx]) for a set that holds items[idx].
PassDelete ==
    /\ ppc = "loop"
    /\ PassHasNext
    /\ visit_result[PassItem[2]] = NOTHING
    /\ IF coll.kind \in MutableSetKinds
         THEN LET p == PositionOf(coll.values, RemovedMember(PassItem[1], PassItem[2]))
              IN  /\ p # 0
                  /\ coll' = [coll EXCEPT !.values = WithoutPosition(@, p)]
         ELSE coll' = [coll EXCEPT !.keys = WithoutPosition(@, cursor + 1),
                                   !.values = WithoutPosition(@, cursor + 1)]
    /\ cursor' = cursor + 1
    /\ UNCHANGED <<coll0, visit_result, engine, output, snapshot, di_used, pass_error, ppc>>
    /\ UNCHANGED notPass

\* Lines 243-244 when the set does not hold items[idx]: set.remove raises
\* KeyError.
PassRemoveRaises ==
    /\ ppc = "loop"
    /\ PassHasNext
    /\ visit_result[PassItem[2]] = NOTHING
    /\ coll.kind \in MutableSetKinds
    /\ PositionOf(coll.values, RemovedMember(PassItem[1], PassItem[2])) = 0
    /\ pass_error' = "KeyError"
    /\ ppc' = "raised"
    /\ UNCHANGED <<coll, coll0, visit_result, engine, output, snapshot, di_used, cursor>>
    /\ UNCHANGED notPass

\* Lines 245-246: set_op is container.add(value) for a set (line 216) and
\* operator.setitem(node, key, value) for a mapping (line 223).
PassReplace ==
    /\ ppc = "loop"
    /\ PassHasNext
    /\ LET new_value == visit_result[PassItem[2]]
       IN  /\ new_value # NOTHING
           /\ new_value # PassItem[2]
           /\ coll' = IF coll.kind \in MutableSetKinds
                        THEN [coll EXCEPT !.values =
                                 IF PositionOf(@, new_value) # 0 THEN @
                                 ELSE Append(@, new_value)]
                        ELSE [coll EXCEPT !.values[cursor + 1] = new_value]
    /\ cursor' = cursor + 1
    /\ UNCHANGED <<coll0, visit_result, engine, output, snapshot, di_used, pass_error, ppc>>
    /\ UNCHANGED notPass

\* Lines 242-246 when the handler returned a value equal to the old one.
PassKeep ==
    /\ ppc = "loop"
    /\ PassHasNext
    /\ visit_result[PassItem[2]] = PassItem[2]
    /\ cursor' = cursor + 1
    /\ UNCHANGED <<coll, coll0, visit_result, engine, output, snapshot, di_used, pass_error, ppc>>
    /\ UNCHANGED notPass

\* Line 241 for a mapping whose size is no longer the one its iterator
\* recorded: RuntimeError, dictionary changed size during iteration.
PassIterRaises ==
    /\ ppc = "loop"
    /\ coll.kind \in MutableMappingKinds
    /\ Len(coll.keys) # di_used
    /\ pass_error' = "RuntimeError"
    /\ ppc' = "raised"
    /\ UNCHANGED <<coll, coll0, visit_result, engine, output, snapshot, di_used, cursor>>
    /\ UNCHANGED notPass

\* Line 248: return result, the node itself.
PassReturn ==
    /\ ppc = "loop"
    /\ PassExhausted
    /\ output' = coll
    /\ ppc' = "returned"
    /\ UNCHANGED <<coll, coll0, visit_result, engine, snapshot, di_used, cursor, pass_error>>
    /\ UNCHANGED notPass

PassNext ==
    \/ PassTranslate
    \/ PassStart
    \/ PassDelete
    \/ PassRemoveRaises
    \/ PassReplace
    \/ PassKeep
    \/ PassIterRaises
    \/ PassReturn

(***************************************************************************)
(* NodeTranslator.visit, call by call, on a graph of objects in which an   *)
(* object may be the child of several objects or of itself                 *)
(* (visitors.py 128-164).  No visit_<Class> handler is defined.            *)
(***************************************************************************)

\* Most objects in a graph.
MaxShared == 2

\* Most nested calls of generic_visit before the interpreter raises
\* RecursionError (sys.getrecursionlimit() frames in the interpreter).
RecursionLimit == 4

\* The classes of the objects of a graph: a Node, a list, and a leaf that
\* copy.deepcopy copies into a new object.
GraphKinds == {"Node", "list", "bytearray"}

\* The objects of the graphs of n objects: a leaf has no children, a Node or
\* list has no child, one child or a pair of children among the n objects.
GraphObjects(n) ==
    {[kind |-> "bytearray", kids |-> <<>>]}
    \cup {[kind |-> k, kids |-> ks] :
             k \in {"Node", "list"},
             ks \in {<<>>} \cup {<<a>> : a \in 1..n} \cup {<<a, b>> : a, b \in 1..n}}

\* A call of generic_visit on a Node or list: the node, and the results of
\* self.visit for the children visited so far.
Frame(n) == [node |-> n, results |-> <<>>]

\* The innermost active call.
Top == stack[Len(stack)]

\* The child the innermost call visits next.
NextChild == graph[Top.node].kids[Len(Top.results) + 1]

\* The innermost call has visited all children of its node.
AllVisited == Len(Top.results) = Len(graph[Top.node].kids)

\* The result r is handed to the caller: appended to the results of the
\* call below, or returned from visit(root).
HandTo(st, r) ==
    [st EXCEPT ![Len(st)].results = Append(@, r)]

ShareIdle ==
    /\ graph = <<>>
    /\ copies = <<>>
    /\ memo = <<>>
    /\ stack = <<>>
    /\ share_result = 0
    /\ share_error = ""
    /\ spc = "idle"

\* A graph whose root (object 1) is a Node or list, every object reachable
\* or not, and NodeTranslator(memo=None).visit(root) entered.
ShareInit ==
    /\ \E n \in 1..MaxShared : graph \in [1..n -> GraphObjects(n)]
    /\ graph[1].kind # "bytearray"
    /\ copies = <<>>
    /\ memo = [i \in {} |-> 0]
    /\ stack = <<Frame(1)>>
    /\ share_result = 0
    /\ share_error = ""
    /\ spc = "running"

\* Lines 161-162 for a leaf child not yet in self.memo: copy.deepcopy makes
\* a new object and records it in the memo.
CopyLeafNew ==
    /\ spc = "running"
    /\ ~AllVisited
    /\ graph[NextChild].kind = "bytearray"
    /\ NextChild \notin DOMAIN memo
    /\ copies' = Append(copies, [kind |-> "bytearray", kids |-> <<>>, src |-> NextChild])
    /\ memo' = [i \in DOMAIN memo \cup {NextChild} |->
                   IF i = NextChild THEN Len(copies) + 1 ELSE memo[i]]
    /\ stack' = HandTo(stack, Len(copies) + 1)
    /\ UNCHANGED <<graph, share_result, share_error, spc>>
    /\ UNCHANGED notShare

\* Lines 161-162 for a leaf child already in self.memo: copy.deepcopy
\* returns the copy made before.
CopyLeafMemo ==
    /\ spc = "running"
    /\ ~AllVisited
    /\ graph[NextChild].kind = "bytearray"
    /\ NextChild \in DOMAIN memo
    /\ stack' = HandTo(stack, memo[NextChild])
    /\ UNCHANGED <<graph, copies, memo, share_result, share_error, spc>>
    /\ UNCHANGED notShare

\* Lines 141 and 149: self.visit(value) for a child that is a Node or list
\* enters generic_visit for it; self.memo is not consulted.
Descend ==
    /\ spc = "running"
    /\ ~AllVisited
    /\ graph[NextChild].kind # "bytearray"
    /\ Len(stack) < RecursionLimit
    /\ stack' = Append(stack, Frame(NextChild))
    /\ UNCHANGED <<graph, copies, memo, share_result, share_error, spc>>
    /\ UNCHANGED notShare

\* The same call when the interpreter's recursion limit is reached.
RaiseRecursionError ==
    /\ spc = "running"
    /\ ~AllVisited
    /\ graph[NextChild].kind # "bytearray"
    /\ Len(stack) >= RecursionLimit
    /\ share_error' = "RecursionError"
    /\ spc' = "raised"
    /\ UNCHANGED <<graph, copies, memo, stack, share_result>>
    /\ UNCHANGED notShare

\* Lines 143-152 and 164: node.__class__(...) of the results builds a new
\* object, which is returned to the caller.
BuildAndReturn ==
    /\ spc = "running"
    /\ AllVisited
    /\ copies' = Append(copies, [kind |-> graph[Top.node].kind, kids |-> Top.results,
                                 src |-> Top.node])
    /\ IF Len(stack) = 1
         THEN /\ share_result' = Len(copies) + 1
              /\ stack' = <<>>
              /\ spc' = "returned"
         ELSE /\ stack' = HandTo(SubSeq(stack, 1, Len(stack) - 1), Len(copies) + 1)
              /\ UNCHANGED <<share_result, spc>>
    /\ UNCHANGED <<graph, memo, share_error>>
    /\ UNCHANGED notShare

ShareNext ==
    \/ CopyLeafNew
    \/ CopyLeafMemo
    \/ Descend
    \/ RaiseRecursionError
    \/ BuildAndReturn

(***************************************************************************)
(* PathNodeVisitor.visit and generic_visit, call by call, with the lists   *)
(* of the PathInfo records as objects (visitors.py 264-330).               *)
(***************************************************************************)

\* The classes of the objects visited with a path.
PathKinds == {"Node", "list", "dict", "int"}

\* PathItemKind: CLASS for a child of a Node, COLLECTION otherwise
\* (lines 317, 322, 325).
ItemKind(h, n) == IF h[n].kind = "Node" THEN "CLASS" ELSE "COLLECTION"

\* The name, index or key under which the i-th item of object n is yielded
\* (lines 316, 321, 324): enumerate counts from 0; the i-th field name or key
\* is written i.
MemberOf(h, n, i) == IF h[n].kind \in SequenceOrSetKinds THEN i - 1 ELSE i

\* PathItem(node, item_kind, name), line 329.
PathItem(h, n, i) == [node |-> n, kind |-> ItemKind(h, n), member |-> MemberOf(h, n, i)]

\* The record is extended in place: its own list gets the item.
PathInfoAppendInPlace(lists, id, item) ==
    [lists |-> [lists EXCEPT ![id] = Append(@, item)], r |-> id]

\* PathInfo.append(item), lines 268-269: PathInfo([*self.items, item]), a new
\* record over a new list.
PathInfoAppend(lists, id, item) ==
    [lists |-> Append(lists, lists[id] \o <<item>>), r |-> Len(lists) + 1]

\* The innermost active call.
PathTop == pstack[Len(pstack)]

PathIdle ==
    /\ ptree = <<>>
    /\ plists = <<>>
    /\ pstack = <<>>
    /\ received = <<>>
    /\ path_of = <<>>
    /\ pathpc = "idle"

\* A tree, and a visitor without visit_<Class> methods.
PathInit ==
    /\ \E n \in 1..MaxObjects :
          \E kind \in [1..n -> PathKinds], parent \in ParentMaps(n) :
              ptree = MakeTree(n, kind, parent)
    /\ WellFormed(ptree)
    /\ plists = <<>>
    /\ pstack = <<>>
    /\ received = [i \in {} |-> <<>>]
    /\ path_of = [i \in {} |-> 0]
    /\ pathpc = "ready"

\* visit(root) with path_info None, lines 296-310: path_info = PathInfo(), a
\* record over a new empty list, and generic_visit(root) is entered.
PathStart ==
    /\ pathpc = "ready"
    /\ plists' = <<<<>>>>
    /\ pstack' = <<[node |-> 1, path |-> 1, done |-> 0]>>
    /\ received' = (1 :> <<>>)
    /\ path_of' = (1 :> 1)
    /\ pathpc' = "walking"
    /\ UNCHANGED ptree
    /\ UNCHANGED notPath

\* Lines 328-330: the next (name, value) of items: the record is appended to
\* and the child visited with the result.
PathVisitChild ==
    /\ pathpc = "walking"
    /\ PathTop.done < Len(Kids(ptree, PathTop.node))
    /\ LET i == PathTop.done + 1
           child == Kids(ptree, PathTop.node)[i]
           ap == PathInfoAppend(plists, PathTop.path, PathItem(ptree, PathTop.node, i))
       IN  /\ plists' = ap.lists
           /\ pstack' = Append([pstack EXCEPT ![Len(pstack)].done = i],
                               [node |-> child, path |-> ap.r, done |-> 0])
           /\ received' = received @@ (child :> ap.lists[ap.r])
           /\ path_of' = path_of @@ (child :> ap.r)
    /\ UNCHANGED <<ptree, pathpc>>
    /\ UNCHANGED notPath

\* generic_visit has gone through all items (none for a leaf) and returns.
PathReturn ==
    /\ pathpc = "walking"
    /\ PathTop.done = Len(Kids(ptree, PathTop.node))
    /\ pstack' = SubSeq(pstack, 1, Len(pstack) - 1)
    /\ pathpc' = IF Len(pstack) = 1 THEN "done" ELSE "walking"
    /\ UNCHANGED <<ptree, plists, received, path_of>>
    /\ UNCHANGED notPath

PathNext ==
    \/ PathStart
    \/ PathVisitChild
    \/ PathReturn

(***************************************************************************)
(* PathNodeVisitor.visit: the choice of the visitor method, for the node   *)
(* and the visit_<Class> methods of the NodeVisitor dispatch above         *)
(***************************************************************************)

RECURSIVE PathWalk(_, _, _)
\* Lines 301-308: for node_class in node.__class__.__mro__: the first class
\* with a method is taken; the loop breaks after Node.
PathWalk(mro, hs, i) ==
    IF i > Len(mro) THEN "generic_visit"
    ELSE IF mro[i] \in hs THEN mro[i]
    ELSE IF mro[i] = "Node" THEN "generic_visit"
    ELSE PathWalk(mro, hs, i + 1)

\* Lines 299-308: visitor = self.generic_visit, replaced only for a Node.
PathVisitorOf(mro, hs) ==
    IF IsNode(mro) THEN PathWalk(mro, hs, 1) ELSE "generic_visit"

ChoiceIdle == path_visitor = ""

\* PathNodeVisitor.visit(node) by a visitor with the same visit_<Class>
\* methods, after NodeVisitor.visit(node) has made its choice.
PathDispatch ==
    /\ dpc = "done"
    /\ path_visitor = ""
    /\ path_visitor' = PathVisitorOf(node_mro, handlers)
    /\ UNCHANGED notChoice

(***************************************************************************)
(* Declaration of a hierarchy of data model classes: the collection of     *)
(* the root validators (datamodel.py 498-514, 535) and their run at        *)
(* construction (278-294).  A root validator is the pair of the class that *)
(* defines it and its position in the class body.                          *)
(***************************************************************************)

\* Most classes of a hierarchy (besides DataModel and object).
MaxClasses == 3

\* The base lists a class may be declared with: DataModel alone (written
\* <<>>), one earlier class, or two different earlier classes.
BaseLists(c) ==
    {<<>>} \cup {<<a>> : a \in 1..(c - 1)}
           \cup {s \in {<<a, b>> : a, b \in 1..(c - 1)} : s[1] # s[2]}

\* The members of a sequence.
RangeOf(s) == {s[i] : i \in DOMAIN s}

RECURSIVE Merge(_)
\* The merge of the C3 linearization: the first head that is in no tail is
\* taken next; <<0>> when there is none (the class cannot be created).
Merge(seqs) ==
    LET rest == SelectSeq(seqs, LAMBDA s : Len(s) > 0)
        good == {i \in DOMAIN rest :
                    \A j \in DOMAIN rest : Head(rest[i]) \notin RangeOf(Tail(rest[j]))}
    IN  IF Len(rest) = 0 THEN <<>>
        ELSE IF good = {} THEN <<0>>
        ELSE LET i == CHOOSE x \in good : \A y \in good : x <= y
                 next == Head(rest[i])
             IN  <<next>> \o Merge([j \in DOMAIN rest |->
                                      IF Head(rest[j]) = next THEN Tail(rest[j])
                                      ELSE rest[j]])

RECURSIVE Mro(_, _)
\* cls.__mro__ without DataModel and object, which hold no root validators;
\* <<0>> for a class that names a base not declared before it.
Mro(bs, c) ==
    IF \E i \in DOMAIN bs[c] : bs[c][i] >= c THEN <<0>>
    ELSE <<c>> \o Merge([i \in DOMAIN bs[c] |-> Mro(bs, bs[c][i])] \o <<bs[c]>>)

\* reversed(seq)
Reversed(s) == [i \in DOMAIN s |-> s[Len(s) + 1 - i]]

\* The validator is appended whether or not it is already there.
AppendAlways(collected, v) == Append(collected, v)

\* Lines 501-502: if validator not in root_validators: append it.
AppendIfNew(collected, v) ==
    IF v \in RangeOf(collected) THEN collected ELSE Append(collected, v)

RECURSIVE AppendEach(_, _)
\* Line 500: for validator in getattr(base, "__datamodel_validators__", []).
AppendEach(collected, vs) ==
    IF Len(vs) = 0 THEN collected
    ELSE AppendEach(AppendIfNew(collected, Head(vs)), Tail(vs))

RECURSIVE FromBases(_, _, _)
\* Lines 498-502: for base in reversed(mro_bases), over the tuples vo the
\* bases got when they were declared.
FromBases(vo, basesLeft, collected) ==
    IF Len(basesLeft) = 0 THEN collected
    ELSE FromBases(vo, Tail(basesLeft), AppendEach(collected, vo[Head(basesLeft)]))

\* Lines 505-514: the members of the class body that carry the root
\* validator tag, in the order of the class body.
OwnRootValidators(c, n) == [k \in 1..n |-> <<c, k>>]

\* Line 535: the tuple datamodel() stores as cls.__datamodel_validators__.
RootValidators(vo, bs, c, n) ==
    FromBases(vo, Reversed(Tail(Mro(bs, c))), <<>>) \o OwnRootValidators(c, n)

DeclIdle ==
    /\ class_bases = <<>>
    /\ own_roots = <<>>
    /\ declared_upto = 0
    /\ validators_of = <<>>
    /\ ran = <<>>
    /\ kpc = "idle"

\* The class statements of a module, none executed yet: each class names
\* bases declared before it, in an order Python can linearize.
DeclInit ==
    /\ \E n \in 1..MaxClasses :
          /\ class_bases \in {bs \in [1..n -> UNION {BaseLists(c) : c \in 1..n}] :
                                 \A c \in 1..n : /\ bs[c] \in BaseLists(c)
                                                 /\ 0 \notin RangeOf(Mro(bs, c))}
          /\ own_roots \in [1..n -> 0..MaxRootValidators]
    /\ declared_upto = 0
    /\ validators_of = <<>>
    /\ ran = <<>>
    /\ kpc = "declaring"

\* The next class statement: DataModel.__init_subclass__ runs datamodel() on
\* the new class (lines 571-596), which collects its root validators.
DeclareClass ==
    /\ kpc = "declaring"
    /\ declared_upto < Len(class_bases)
    /\ LET c == declared_upto + 1
       IN  /\ validators_of' = Append(validators_of,
                  RootValidators(validators_of, class_bases, c, own_roots[c]))
           /\ declared_upto' = c
    /\ UNCHANGED <<class_bases, own_roots, ran, kpc>>
    /\ UNCHANGED notDecl

\* An instance of the last class is constructed: __attrs_post_init__ calls
\* each validator of type(self).__datamodel_validators__ (lines 278-294).
ConstructInstance ==
    /\ kpc = "declaring"
    /\ declared_upto = Len(class_bases)
    /\ ran' = validators_of[declared_upto]
    /\ kpc' = "constructed"
    /\ UNCHANGED <<class_bases, own_roots, declared_upto, validators_of>>
    /\ UNCHANGED notDecl

DeclNext ==
    \/ DeclareClass
    \/ ConstructInstance

(***************************************************************************)
(* Specifications                                                          *)
(***************************************************************************)

\* One thread issues specialization requests one after the other.
InitCacheSeq == DeclIdle /\ ChoiceIdle /\ PathIdle /\ ShareIdle /\ PassIdle /\ SetattrIdle /\ DispatchIdle /\ CtorIdle /\ ValIdle /\ CacheInit /\ SeqIdle /\ TreeIdle
NextCacheSeq == ThreadStep("t1")
SpecCacheSeq == InitCacheSeq /\ [][NextCacheSeq]_vars

\* Several threads issue specialization requests concurrently.
InitCache == DeclIdle /\ ChoiceIdle /\ PathIdle /\ ShareIdle /\ PassIdle /\ SetattrIdle /\ DispatchIdle /\ CtorIdle /\ ValIdle /\ CacheInit /\ SeqIdle /\ TreeIdle
NextCache == \E t \in Threads : ThreadStep(t)
SpecCache == InitCache /\ [][NextCache]_vars

\* One in-place visit of a mutable sequence.
InitModSeq == DeclIdle /\ ChoiceIdle /\ PathIdle /\ ShareIdle /\ PassIdle /\ SetattrIdle /\ DispatchIdle /\ CtorIdle /\ ValIdle /\ SeqInit /\ CacheIdle /\ TreeIdle
NextModSeq == SeqNext
SpecModSeq == InitModSeq /\ [][NextModSeq]_vars

\* One translating or modifying pass over a tree with no-op handlers.
InitTree == DeclIdle /\ ChoiceIdle /\ PathIdle /\ ShareIdle /\ PassIdle /\ SetattrIdle /\ DispatchIdle /\ CtorIdle /\ TreeInit /\ CacheIdle /\ SeqIdle /\ ValIdle
NextTree == TreeNext
SpecTree == InitTree /\ [][NextTree]_vars

\* One field is declared and a model is constructed with one value for it.
InitValidate == DeclIdle /\ ChoiceIdle /\ PathIdle /\ ShareIdle /\ PassIdle /\ SetattrIdle /\ DispatchIdle /\ CtorIdle /\ ValInit /\ CacheIdle /\ SeqIdle /\ TreeIdle
NextValidate == ValNext
SpecValidate == InitValidate /\ [][NextValidate]_vars

\* One class is declared and its constructor is called once.
InitConstruct == DeclIdle /\ ChoiceIdle /\ PathIdle /\ ShareIdle /\ PassIdle /\ SetattrIdle /\ DispatchIdle /\ CtorInit /\ CacheIdle /\ SeqIdle /\ TreeIdle /\ ValIdle
NextConstruct == CtorNext
SpecConstruct == InitConstruct /\ [][NextConstruct]_vars

\* One value is dispatched by one visitor object.
InitDispatch == DeclIdle /\ ChoiceIdle /\ PathIdle /\ ShareIdle /\ PassIdle /\ SetattrIdle /\ DispatchInit /\ CacheIdle /\ SeqIdle /\ TreeIdle /\ ValIdle /\ CtorIdle
NextDispatch == DispatchNext
SpecDispatch == InitDispatch /\ [][NextDispatch]_vars

\* One field of one instance is assigned once.
InitSetattr ==
    DeclIdle /\ ChoiceIdle /\ PathIdle /\ ShareIdle /\ PassIdle /\ SetattrInit /\ CacheIdle /\ SeqIdle /\ TreeIdle /\ ValIdle /\ CtorIdle /\ DispatchIdle
NextSetattr == SetattrNext
SpecSetattr == InitSetattr /\ [][NextSetattr]_vars

\* A tree is translated by a visitor with handlers.
InitTranslate ==
    DeclIdle /\ ChoiceIdle /\ PathIdle /\ ShareIdle /\ PassIdle /\ TranslateInit /\ CacheIdle /\ SeqIdle /\ ValIdle /\ CtorIdle /\ DispatchIdle
        /\ SetattrIdle
NextTranslate == Translate
SpecTranslate == InitTranslate /\ [][NextTranslate]_vars

\* One container is visited by a translator or a modifier.
InitPass ==
    DeclIdle /\ ChoiceIdle /\ PathIdle /\ ShareIdle /\ PassInit /\ CacheIdle /\ SeqIdle /\ TreeIdle /\ ValIdle /\ CtorIdle /\ DispatchIdle
        /\ SetattrIdle
NextPass == PassNext
SpecPass == InitPass /\ [][NextPass]_vars

\* A tree is modified in place by a visitor with handlers.
InitModify ==
    DeclIdle /\ ChoiceIdle /\ PathIdle /\ ShareIdle /\ PassIdle /\ ModifyInit /\ CacheIdle /\ SeqIdle /\ ValIdle /\ CtorIdle /\ DispatchIdle
        /\ SetattrIdle
NextModify == Modify
SpecModify == InitModify /\ [][NextModify]_vars

\* A graph with shared objects is translated.
InitShare ==
    DeclIdle /\ ChoiceIdle /\ PathIdle /\ ShareInit /\ CacheIdle /\ SeqIdle /\ TreeIdle /\ ValIdle /\ CtorIdle /\ DispatchIdle
        /\ SetattrIdle /\ PassIdle
NextShare == ShareNext
SpecShare == InitShare /\ [][NextShare]_vars

\* A tree is walked by a PathNodeVisitor.
InitPath ==
    DeclIdle /\ ChoiceIdle /\ PathInit /\ CacheIdle /\ SeqIdle /\ TreeIdle /\ ValIdle /\ CtorIdle /\ DispatchIdle
        /\ SetattrIdle /\ PassIdle /\ ShareIdle
NextPath == PathNext
SpecPath == InitPath /\ [][NextPath]_vars

\* A node is dispatched by a NodeVisitor and by a PathNodeVisitor with the
\* same methods.
InitBothDispatch ==
    DeclIdle /\ DispatchInit /\ ChoiceIdle /\ CacheIdle /\ SeqIdle /\ TreeIdle /\ ValIdle /\ CtorIdle
        /\ SetattrIdle /\ PassIdle /\ ShareIdle /\ PathIdle
NextBothDispatch ==
    \/ LookupOwnClass
    \/ WalkFound
    \/ WalkNext
    \/ WalkStopAtNode
    \/ WalkExhausted
    \/ CallVisitor
    \/ PathDispatch
SpecBothDispatch == InitBothDispatch /\ [][NextBothDispatch]_vars

\* A hierarchy of data model classes is declared and the last class
\* constructed.
InitDeclare ==
    DeclInit /\ CacheIdle /\ SeqIdle /\ TreeIdle /\ ValIdle /\ CtorIdle /\ DispatchIdle
        /\ SetattrIdle /\ PassIdle /\ ShareIdle /\ PathIdle /\ ChoiceIdle
NextDeclare == DeclNext
SpecDeclare == InitDeclare /\ [][NextDeclare]_vars

(***************************************************************************)
(* Properties                                                              *)
(***************************************************************************)

\* C1: in a single-threaded sequence of specialization requests (E[args] or
\* E.__concretize__(*args)), two requests with an equal ordered tuple of
\* type arguments return the identical type object, and the second request
\* creates no new type (at most one type is ever made for a key).
C1_EqualArgsIdenticalType ==
    /\ \A r1, r2 \in returned : r1[1] = r2[1] => r1[2] = r2[2]
    /\ \A k \in Keys : Cardinality({o \in created : o.key = k}) <= 1
    /\ pc["t1"] = "returning" =>
          \A r \in returned : r[1] = req["t1"] => r[2] = concrete_cls["t1"]

\* C1 witness: a second request for a key that was already returned is about
\* to hand back the very object the first request returned.
C1_Witness ==
    \E r \in returned :
        /\ pc["t1"] = "returning"
        /\ req["t1"] = r[1]
        /\ concrete_cls["t1"] = r[2]
        /\ r[2] \in created

\* C2: under concurrent requests cache population is serialized: at most one
\* concrete type is created per key, every caller receives that one object,
\* and each cache entry holds the type made for its own key.
C2_ConcurrentRequestsOneType ==
    /\ \A o1, o2 \in created : o1.key = o2.key => o1 = o2
    /\ \A r \in returned : r[2] \in created /\ r[2].key = r[1]
    /\ \A k \in DOMAIN cache : cache[k] \in created /\ cache[k].key = k
    /\ \A t \in Threads :
          pc[t] = "returning" =>
              concrete_cls[t] \in created /\ concrete_cls[t].key = req[t]

\* C2 witness: two threads asked for the same key while it was not cached;
\* one has made the type and is returning it, the other still waits for the
\* lock; a second key has been populated as well.
C2_Witness ==
    \E a, b \in Threads :
        /\ a # b
        /\ pc[a] = "returning" /\ pc[b] = "waiting"
        /\ req[a] = req[b]
        /\ req[a] \in DOMAIN cache
        /\ Cardinality(DOMAIN cache) >= 2

\* The sequence the visit should leave: the elements whose handler result is
\* not the sentinel, each replaced by its handler result, in order.
ExpectedResult(orig, h) ==
    LET kept == SelectSeq(orig, LAMBDA v : h[v] # "NOTHING")
    IN  [i \in 1..Len(kept) |->
            IF h[kept[i]] = "new" THEN NewValue(kept[i]) ELSE kept[i]]

\* C3: every element of the original sequence is visited exactly once, in
\* order, whatever subset of elements the handlers delete.
C3_EveryElementVisitedOnce == mpc = "done" => visited = original

\* C4: after the visit the sequence holds exactly the surviving elements,
\* each replaced by its handler result, in the original relative order.
C4_SurvivorsInOrder == mpc = "done" => node = ExpectedResult(original, handler)

RECURSIVE Reach(_, _)
\* The objects reachable from object n.
Reach(h, n) == {n} \cup UNION {Reach(h, Kids(h, n)[i]) : i \in DOMAIN Kids(h, n)}

ImmutableContainerKinds == {"tuple", "frozenset", "mappingproxy"}

\* C5: NodeTranslator.visit with only the default generic handler returns a
\* tree equal to the input in which no Node and no mutable container is an
\* object of the input.
C5_TranslatorCopyIsEqualAndNew ==
    (tpc = "translated" /\ \A i \in DOMAIN tree0 : visit_method[i] = "generic_visit") =>
        /\ PyEq(tree, result, 1)
        /\ \A i \in Reach(tree, result) :
              tree[i].kind \in MutableKinds => i \notin DOMAIN tree0

\* C5 witness: a Node holding a list and a bytearray has been translated
\* with the generic handler only, and the result is another object.
C5_Witness ==
    /\ tpc = "translated"
    /\ \A i \in DOMAIN tree0 : visit_method[i] = "generic_visit"
    /\ Len(tree0) >= 3
    /\ tree0[1].kind = "Node" /\ tree0[2].kind = "list" /\ tree0[3].kind = "bytearray"
    /\ result # 1
    /\ PyEq(tree, result, 1)

\* C6 as stated: after a no-op NodeModifier pass the returned root is the
\* object passed in, for every tree (immutable containers included), and
\* nothing was written.
C6_ModifierReturnsSameRoot ==
    tpc = "modified" =>
        /\ result = 1
        /\ writes = {}
        /\ \A i \in DOMAIN tree0 : tree[i] = tree0[i]

\* C6 amended: a no-op NodeModifier pass writes nothing and changes no object
\* of the tree; the result equals the input; it is the identical object
\* unless the root is an immutable sequence, set or mapping, which is rebuilt;
\* every Node, mutable container and leaf of the result is an object of the
\* input.
C6_ModifierNoOpLeavesGraphUntouched ==
    tpc = "modified" =>
        /\ writes = {}
        /\ \A i \in DOMAIN tree0 : tree[i] = tree0[i]
        /\ PyEq(tree, result, 1)
        /\ tree0[1].kind \notin ImmutableContainerKinds => result = 1
        /\ \A i \in Reach(tree, result) :
              tree[i].kind \notin ImmutableContainerKinds => i \in DOMAIN tree0

\* C6 witness: a tuple holding a Node that holds a tuple was visited by a
\* no-op modifier: the root was rebuilt around the same Node.
C6_Witness ==
    /\ tpc = "modified"
    /\ Len(tree0) >= 3
    /\ tree0[1].kind = "tuple" /\ tree0[2].kind = "Node" /\ tree0[3].kind = "tuple"
    /\ Kids(tree0, 1) = <<2>> /\ Kids(tree0, 2) = <<3>>
    /\ visit_method[2] = "generic_visit"
    /\ result # 1
    /\ Kids(tree, result) = <<2>>


\* The phase of a check: field validation, root validation, __post_init__.
Phase(step) ==
    CASE step.kind \in {"type", "attrib", "user"} -> 1
      [] step.kind = "root" -> 2
      [] step.kind = "post_init" -> 3

\* Check a has its place before check b.
Precedes(a, b) ==
    \/ Phase(a) < Phase(b)
    \/ /\ Phase(a) = 1 /\ Phase(b) = 1
       /\ \/ a.field < b.field
          \/ a.field = b.field /\ a.kind = "type" /\ b.kind # "type"
          \/ a.field = b.field /\ a.kind # "type" /\ b.kind # "type" /\ a # b
    \/ Phase(a) = 2 /\ Phase(b) = 2 /\ a.idx < b.idx

\* C7: during construction the type check of a field runs before the user
\* validators of that field, the checks of the fields run in field order
\* before every root validator, the root validators run in the order of their
\* registration, __post_init__ runs last, and the first check that fails
\* raises: no later check runs and no instance is returned.
C7_ChecksRunInFixedOrder ==
    /\ \A i, j \in DOMAIN steps_run : i < j => Precedes(steps_run[i], steps_run[j])
    /\ ctor_error # NoError => cpc = "raised" /\ Len(steps_run) = ctor_error.at
    /\ cpc = "returned" => ctor_error = NoError

\* The second root validator raised after the checks of two fields, one of
\* them with a user validator; the __post_init__ of the class did not run.
C7_Witness ==
    /\ cpc = "raised"
    /\ Len(entity.fields) = 2
    /\ entity.has_post_init
    /\ \E i \in DOMAIN steps_run : steps_run[i].kind = "user"
    /\ steps_run[Len(steps_run)] = Step("root", 0, 2)
    /\ ctor_error.at = Len(steps_run)

\* C9: constructing a class declared with instantiable=False raises TypeError
\* naming the class whatever the arguments are, none or unknown keywords
\* included; no check runs and no instance is returned.
C9_NonInstantiableAlwaysRaises ==
    (~entity.instantiable /\ cpc \notin {"idle", "declared"}) =>
        /\ cpc = "raised"
        /\ ctor_error = [exc |-> "TypeError", about |-> "entity", at |-> 0]
        /\ steps_run = <<>>

\* A non-instantiable class was called with an unknown keyword and raised.
C9_Witness ==
    /\ ~entity.instantiable
    /\ call_args = "unknown_keyword"
    /\ cpc = "raised"
    /\ ctor_error.about = "entity"

\* A hint that is, or has among its arguments, a Literal[...].
MentionsLiteral(h) ==
    \/ GetOrigin(h) = "Literal"
    \/ \E i \in DOMAIN h.args : GetOrigin(h.args[i]) = "Literal"

RECURSIVE HasType(_, _)
\* The value is of the declared type, as the annotation reads.
HasType(val, h) ==
    LET all(ms, a) == \A i \in DOMAIN ms : HasType(ms[i], a)
    IN  CASE h.k = "class" -> IsInstance(val, h.name)
          [] h.k = "TypeVar" -> h.name = "" \/ IsInstance(val, h.name)
          [] h.k = "Any" -> TRUE
          [] h.k = "Ellipsis" -> FALSE
          [] h.k = "object" -> FALSE
          [] h.k = "alias" /\ h.name = "Literal" ->
                \E i \in DOMAIN h.lits :
                    IF h.lits[i].t = "bool" THEN val = h.lits[i]
                    ELSE val.t # "bool" /\ PyEqVal(val, h.lits[i])
          [] h.k = "alias" /\ h.name = "Union" ->
                \E i \in DOMAIN h.args : HasType(val, h.args[i])
          [] h.k = "alias" /\ h.name = "tuple" ->
                /\ val.t = "tuple"
                /\ IF Len(h.args) = 2 /\ h.args[2].k = "Ellipsis"
                     THEN all(val.items, h.args[1])
                     ELSE /\ Len(val.items) = Len(h.args)
                          /\ \A i \in DOMAIN h.args : HasType(val.items[i], h.args[i])
          [] h.k = "alias" /\ h.name \in {"list", "set", "Sequence", "Iterable"} ->
                /\ IsInstance(val, h.name)
                /\ all(Members(val), h.args[1])
          [] h.k = "alias" /\ h.name = "dict" ->
                /\ val.t = "dict"
                /\ \A i \in DOMAIN val.items :
                      /\ HasType(val.items[i].items[1], h.args[1])
                      /\ HasType(val.items[i].items[2], h.args[2])

\* C8: constructing a model with a field value that is not of the field's
\* declared type raises TypeError naming the field, a value of the declared
\* type is accepted, and an instance of another class with the same fields is
\* rejected where the class itself is declared.
C8_WrongTypeRaisesTypeError ==
    (vpc = "constructed" /\ ~MentionsLiteral(type_hint)) =>
        IF HasType(field_value, type_hint)
            THEN outcome.exc = "ok"
            ELSE outcome.exc = "TypeError" /\ outcome.names

\* C10: a field annotated Literal[v1, ..., vn] accepts a value exactly when it
\* matches one of the literals, a bool literal by identity and any other by
\* equality; Literal[True] rejects 1, Literal[5] rejects (5,) and '5'; a
\* rejection is a ValueError naming the field.
C10_LiteralAcceptsOnlyItsValues ==
    (vpc = "constructed" /\ GetOrigin(type_hint) = "Literal") =>
        /\ outcome.exc = "ok" <=>
              \E i \in DOMAIN type_hint.lits :
                  IF type_hint.lits[i].t = "bool"
                      THEN IsSameBool(field_value, type_hint.lits[i])
                      ELSE PyEqVal(field_value, type_hint.lits[i])
        /\ outcome.exc # "ok" => outcome.exc = "ValueError" /\ outcome.names
        /\ (type_hint = LiteralHint(<<PyBool(TRUE)>>) /\ field_value = PyInt(1))
              => outcome.exc = "ValueError"
        /\ (type_hint = LiteralHint(<<PyBool(TRUE)>>) /\ field_value = PyBool(TRUE))
              => outcome.exc = "ok"
        /\ (type_hint = LiteralHint(<<PyInt(5)>>)
                /\ field_value \in {PyTuple(<<PyInt(5)>>), PyStr(5)})
              => outcome.exc = "ValueError"

\* Literal[True] was given the int 1 and refused it.
C10_Witness ==
    /\ vpc = "constructed"
    /\ type_hint = LiteralHint(<<PyBool(TRUE)>>)
    /\ field_value = PyInt(1)
    /\ outcome = Raised("ValueError", TRUE, -1)

\* The positions of the tuple whose element fails its positional validator.
FailingPositions(vd, val) ==
    {i \in DOMAIN vd.subs : RunValidator(vd.subs[i], val.items[i]).exc # "ok"}

\* C11: the validator of a Tuple[T1, ..., Tk] field raises TypeError naming
\* the field when the value is no tuple or not of length k; otherwise it
\* raises TypeError naming the field and the lowest position whose element
\* fails its validator, without checking any later position; a tuple with no
\* failing position is accepted.
C11_TupleReportsFirstFailingPosition ==
    (vpc = "constructed" /\ type_validator.k = "tuple") =>
        IF field_value.t # "tuple" \/ Len(field_value.items) # Len(type_hint.args)
            THEN outcome = Raised("TypeError", TRUE, -1) /\ calls = 0
        ELSE IF FailingPositions(type_validator, field_value) = {}
            THEN outcome = Passed /\ calls = Len(type_hint.args)
        ELSE /\ outcome.exc = "TypeError" /\ outcome.names
             /\ outcome.pos + 1 \in FailingPositions(type_validator, field_value)
             /\ \A j \in FailingPositions(type_validator, field_value) :
                   outcome.pos + 1 <= j
             /\ calls = outcome.pos + 1

\* Tuple[int, str] was given ('5', 5): both positions fail, position 0 is
\* reported and position 1 was not checked.
C11_Witness ==
    /\ vpc = "constructed"
    /\ type_hint = Alias("tuple", <<Cls("int"), Cls("str")>>)
    /\ field_value = PyTuple(<<PyStr(5), PyInt(5)>>)
    /\ outcome = Raised("TypeError", TRUE, 0)
    /\ calls = 1

\* The validator of one alternative of a union, called on its own, returns.
AlternativeAccepts(h, val) ==
    RunValidator(StrictTypeAttrsValidator(h), val).exc = "ok"

\* C12: the validator of a Union field accepts a value exactly when the
\* validator of at least one alternative accepts it, None exactly when
\* NoneType is an alternative; the alternatives are tried in declared order up
\* to the first that passes; when none passes TypeError naming the field is
\* raised.
C12_UnionFirstMatchWins ==
    (vpc = "constructed" /\ GetOrigin(type_hint) = "Union") =>
        LET accepting == {i \in DOMAIN type_hint.args :
                             AlternativeAccepts(type_hint.args[i], field_value)}
        IN  /\ outcome.exc = "ok" <=> accepting # {}
            /\ field_value = PyNone =>
                  (outcome.exc = "ok" <=>
                      \E i \in DOMAIN type_hint.args : type_hint.args[i] = Cls("NoneType"))
            /\ (type_validator.k = "or" /\ accepting # {}) =>
                  /\ calls \in accepting
                  /\ \A j \in accepting : calls <= j
            /\ accepting = {} => outcome.exc = "TypeError" /\ outcome.names

\* A request that must be refused: the class is not generic, an argument is
\* neither a class nor a type variable, or the number of arguments is not the
\* number of type parameters.
InvalidRequest(key) ==
    \/ Parameters(key[1]) = <<>>
    \/ \E i \in DOMAIN key[2] : key[2][i] \notin {"int", "T"}
    \/ Len(key[2]) # Len(Parameters(key[1]))

\* C13: a specialization request for a class that is not generic, with an
\* argument that is neither a type nor a type variable, or with the wrong
\* number of arguments raises TypeError; no type is created for it, nothing
\* is registered in the module namespace or memoized, and the wrapper is left
\* free for later requests.
C13_InvalidSpecializationRaises ==
    /\ \A t \in Threads :
          /\ pc[t] = "raised" => InvalidRequest(req[t]) /\ lock # t
          /\ pc[t] \in {"new_class", "register", "store", "returning"} =>
                ~InvalidRequest(req[t])
    /\ \A o \in created : ~InvalidRequest(o.key)
    /\ \A k \in DOMAIN cache : ~InvalidRequest(k)
    /\ \A n \in DOMAIN moduleGlobals : ~InvalidRequest(moduleGlobals[n].key)
    /\ \A r \in returned : ~InvalidRequest(r[1])

\* G[int, int] was refused while the type made earlier for G[int] is still
\* memoized and registered.
C13_Witness ==
    /\ pc["t1"] = "raised"
    /\ req["t1"] = CacheKey("G", <<"int", "int">>)
    /\ CacheKey("G", <<"int">>) \in DOMAIN cache
    /\ cache[CacheKey("G", <<"int">>)] \in created
    /\ ClassName("G", <<"int">>) \in DOMAIN moduleGlobals
    /\ lock = "free"

\* The position of Node in the mro of a node.
NodePosition(mro) == CHOOSE i \in DOMAIN mro : mro[i] = "Node"

\* C14: for a Node instance visit calls the handler of the first class, from
\* the class of the node up to and including Node, that has one; no class
\* after Node is consulted; without a handler in that range generic_visit is
\* called.
C14_HandlerOfNearestClassUpToNode ==
    (dpc = "done" /\ IsNode(node_mro)) =>
        LET range == 1..NodePosition(node_mro)
            withHandler == {i \in range : node_mro[i] \in handlers}
        IN  /\ \A i \in DOMAIN consulted :
                  \E j \in range : consulted[i] = node_mro[j]
            /\ IF withHandler = {} THEN visitor = "generic_visit"
               ELSE \E i \in withHandler :
                       /\ visitor = node_mro[i]
                       /\ \A j \in withHandler : i <= j

\* C15: an instance of a class declared with frozen=True is immutable: an
\* assignment to a field raises an error and leaves the value of the field
\* as it was.
C15_FrozenInstancesRejectAssignment ==
    (options.frozen /\ apc = "assigned") =>
        /\ setattr_error # ""
        /\ x_now = x_before

\* C16: a generic class is abstract until it is specialized: constructing it
\* directly fails, while the class made by specializing it with concrete type
\* arguments is not generic and is constructible (its construction never
\* fails for being abstract).
C16_GenericIsAbstractUntilSpecialized ==
    /\ (entity.generic /\ cpc \notin {"idle", "declared"}) =>
          cpc = "raised" /\ steps_run = <<>>
    /\ entity.specialized =>
          /\ ~ClassIsGeneric(entity)
          /\ ctor_error.about # "entity"

\* C17: a translating pass, whatever its handlers return, leaves every object
\* of the input tree as it was: the children of every Node, the elements of
\* every sequence, the members of every set and the entries of every mapping.
C17_TranslatorLeavesInputUntouched ==
    tpc = "translated" =>
        /\ Len(tree) >= Len(tree0)
        /\ \A i \in DOMAIN tree0 : tree[i] = tree0[i]

\* A list of two elements was translated with a handler that returns NOTHING
\* for the first: the result is a new list of one element, the input list
\* still has two.
C17_Witness ==
    /\ tpc = "translated"
    /\ tree0[1].kind = "list"
    /\ Len(Kids(tree0, 1)) = 2
    /\ visit_method[Kids(tree0, 1)[1]] = "return_NOTHING"
    /\ result # 1
    /\ Len(Kids(tree, result)) = 1
    /\ Len(Kids(tree, 1)) = 2

\* The value the mapping c holds under key k.
ValueAt(c, k) == c.values[CHOOSE i \in DOMAIN c.keys : c.keys[i] = k]

\* C18: NodeTranslator.generic_visit on a sequence or set returns a container
\* of the same class holding exactly the handler results that are not NOTHING,
\* in the original order for a sequence; on a mapping it returns a mapping of
\* the same class whose keys are the keys whose result is not NOTHING, each
\* mapped to its handler result.
C18_TranslatorRebuildsWithoutDeleted ==
    (ppc = "returned" /\ engine = "NodeTranslator") =>
        LET results == [i \in DOMAIN coll0.values |-> visit_result[coll0.values[i]]]
        IN  /\ output.kind = coll0.kind
            /\ coll0.kind \in {"list", "tuple"} =>
                   output.values = SelectSeq(results, LAMBDA v : v # NOTHING)
            /\ coll0.kind \in SetKinds =>
                   /\ {output.values[i] : i \in DOMAIN output.values}
                          = {results[i] : i \in DOMAIN results} \ {NOTHING}
                   /\ \A i, j \in DOMAIN output.values :
                          output.values[i] = output.values[j] => i = j
            /\ coll0.kind \in MappingKinds =>
                   /\ {output.keys[j] : j \in DOMAIN output.keys}
                          = {coll0.keys[i] : i \in {p \in DOMAIN results : results[p] # NOTHING}}
                   /\ Len(output.keys) = Len(output.values)
                   /\ \A i, j \in DOMAIN output.keys :
                          output.keys[i] = output.keys[j] => i = j
                   /\ \A j \in DOMAIN output.keys :
                          output.values[j] = visit_result[ValueAt(coll0, output.keys[j])]

\* A mapping of two entries was translated: the handler returned NOTHING for
\* the value of the first key and a different value for the second, and the
\* result holds the second key only, mapped to the new value.
C18_Witness ==
    /\ ppc = "returned"
    /\ engine = "NodeTranslator"
    /\ coll0.kind = "dict"
    /\ Len(coll0.keys) = 2
    /\ visit_result[coll0.values[1]] = NOTHING
    /\ visit_result[coll0.values[2]] \notin {NOTHING, coll0.values[2]}
    /\ output.keys = <<coll0.keys[2]>>
    /\ output.values = <<visit_result[coll0.values[2]]>>
    /\ coll = coll0

\* C19: NodeModifier.generic_visit on a mutable mapping completes without
\* error and returns that mapping modified in place: the entries whose result
\* is NOTHING are gone, the entries whose result differs from the old value
\* hold the result under the same key, the others are as they were.
C19_ModifierMappingInPlace ==
    (engine = "NodeModifier" /\ coll0.kind \in MutableMappingKinds
        /\ ppc \in {"returned", "raised"}) =>
        /\ pass_error = ""
        /\ output = coll
        /\ coll.kind = coll0.kind
        /\ coll.keys = SelectSeq(coll0.keys,
                           LAMBDA k : visit_result[ValueAt(coll0, k)] # NOTHING)
        /\ Len(coll.values) = Len(coll.keys)
        /\ \A j \in DOMAIN coll.keys :
               coll.values[j] = visit_result[ValueAt(coll0, coll.keys[j])]

\* The members of the set c.
MembersOf(c) == {c.values[i] : i \in DOMAIN c.values}

\* C20: NodeModifier.generic_visit on a mutable set completes without error;
\* the members whose result is NOTHING are removed, every changed result is
\* added, the members whose result is not NOTHING stay, and nothing else is
\* in the set.
C20_ModifierSetFromSnapshot ==
    (engine = "NodeModifier" /\ coll0.kind \in MutableSetKinds
        /\ ppc \in {"returned", "raised"}) =>
        LET deleted == {v \in MembersOf(coll0) : visit_result[v] = NOTHING}
            added == {visit_result[v] :
                         v \in {u \in MembersOf(coll0) : visit_result[u] \notin {NOTHING, u}}}
        IN  /\ pass_error = ""
            /\ output = coll
            /\ \A v \in deleted \ added : v \notin MembersOf(coll)
            /\ added \subseteq MembersOf(coll)
            /\ MembersOf(coll0) \ deleted \subseteq MembersOf(coll)
            /\ MembersOf(coll) \subseteq MembersOf(coll0) \cup added

\* The Node and mutable-container classes whose children NodeModifier
\* replaces in place.
InPlaceKinds ==
    {"Node"} \cup MutableSequenceKinds \cup MutableSetKinds \cup MutableMappingKinds

\* C21: after a NodeModifier pass, when the handler of a child of a Node or
\* of a mutable container returned a value that is neither NOTHING nor the
\* child object itself, the child's slot in its parent holds the returned
\* value: a new object (not one of the input tree) with the returned
\* contents; for a set, a member equal to the returned value.
C21_ModifierSlotHoldsReturnedValue ==
    tpc = "modified" =>
        \A p \in DOMAIN tree0 : \A i \in DOMAIN Kids(tree0, p) :
            LET child == Kids(tree0, p)[i]
            IN  (tree0[p].kind \in InPlaceKinds
                    /\ visit_method[child] \in {"return_new", "return_equal"}) =>
                IF tree0[p].kind \in MutableSetKinds
                  THEN \E j \in DOMAIN Kids(tree, p) :
                          tree[Kids(tree, p)[j]].val = 0 - child
                  ELSE /\ Kids(tree, p)[i] \notin DOMAIN tree0
                       /\ IF visit_method[child] = "return_new"
                            THEN tree[Kids(tree, p)[i]].val = 0 - child
                            ELSE PyEq(tree, Kids(tree, p)[i], child)

\* C22: a NodeTranslator pass over a graph with shared or cyclic references
\* ends without error, and wherever two positions of the input hold the same
\* object, the corresponding two positions of the output hold one and the
\* same copy.
C22_SharedObjectCopiedOnce ==
    spc \in {"returned", "raised"} =>
        /\ share_error = ""
        /\ \A a, b \in DOMAIN copies :
             \A i \in DOMAIN copies[a].kids, j \in DOMAIN copies[b].kids :
                 graph[copies[a].src].kids[i] = graph[copies[b].src].kids[j]
                     => copies[a].kids[i] = copies[b].kids[j]

RECURSIVE ContainsNone(_)
\* The validator is the missing value None, or is built over one.
ContainsNone(vd) ==
    \/ vd.k = "none"
    \/ \E i \in DOMAIN vd.subs : ContainsNone(vd.subs[i])

\* The type descriptions the compiler supports: a plain class, a type
\* variable, Any, a Literal, a Union, a tuple type, a homogeneous sequence or
\* set type, a mapping type.
SupportedDescription(h) ==
    \/ h.k \in {"class", "TypeVar", "Any"}
    \/ GetOrigin(h) \in {"Literal", "Union", "tuple", "list", "set", "Sequence", "dict"}

\* C23: strict_type_attrs_validator returns a callable constraint or raises
\* TypeError: a declaration that went through has a constraint with no
\* missing (None) part, and a type description of no supported kind is
\* rejected.
C23_CompilerReturnsConstraintOrRaises ==
    /\ vpc \in {"declared", "constructed"} => ~ContainsNone(type_validator)
    /\ (vpc # "annotated" /\ ~SupportedDescription(type_hint)) => vpc = "rejected"

\* The parent of object n of the tree h, and n's position among its children.
ParentOf(h, n) == CHOOSE p \in DOMAIN h : \E i \in DOMAIN Kids(h, p) : Kids(h, p)[i] = n
PositionIn(h, n) == CHOOSE i \in DOMAIN Kids(h, ParentOf(h, n)) : Kids(h, ParentOf(h, n))[i] = n

RECURSIVE DepthOf(_, _)
\* The number of ancestors of object n.
DepthOf(h, n) == IF n = 1 THEN 0 ELSE 1 + DepthOf(h, ParentOf(h, n))

\* C24: in the default traversal started without a path, the record a value
\* at depth d is visited with holds d frames: the frames of its parent's
\* record followed by one frame (parent, kind, member); and a record, once
\* handed to a visit, keeps its frames whatever is appended for the
\* children and siblings.
C24_PathRecordIsParentPlusOneFrame ==
    \A n \in DOMAIN received :
        /\ Len(received[n]) = DepthOf(ptree, n)
        /\ n # 1 =>
              /\ ParentOf(ptree, n) \in DOMAIN received
              /\ received[n] = received[ParentOf(ptree, n)]
                     \o <<[node |-> ParentOf(ptree, n),
                           kind |-> IF ptree[ParentOf(ptree, n)].kind = "Node"
                                      THEN "CLASS" ELSE "COLLECTION",
                           member |-> IF ptree[ParentOf(ptree, n)].kind = "list"
                                        THEN PositionIn(ptree, n) - 1
                                        ELSE PositionIn(ptree, n)]>>
        /\ plists[path_of[n]] = received[n]

\* A Node with two children was walked to the end: both children were
\* visited with a record of one frame, the two frames differ in the member
\* only, and the root's record is still empty.
C24_Witness ==
    /\ pathpc = "done"
    /\ ptree[1].kind = "Node"
    /\ Len(Kids(ptree, 1)) = 2
    /\ DOMAIN received = {1, 2, 3}
    /\ Len(received[2]) = 1
    /\ Len(received[3]) = 1
    /\ received[2][1].node = received[3][1].node
    /\ received[2][1].member # received[3][1].member
    /\ plists[path_of[1]] = <<>>

\* C25: for every value and every set of visit_<Class> methods,
\* PathNodeVisitor.visit chooses the method NodeVisitor.visit chooses.
C25_PathDispatchAsVisitorDispatch ==
    path_visitor # "" => path_visitor = visitor

\* C26: every @validator function of a class body is attached to its field
\* and runs at construction, also when the class body holds several for the
\* same field: a construction that returned has run each of them.
C26_EveryFieldValidatorRuns ==
    cpc = "returned" =>
        \A f \in DOMAIN entity.fields : \A j \in 1..entity.fields[f].decorated :
            \E k \in DOMAIN steps_run : steps_run[k] = Step("user", f, j)

RECURSIVE AncestorsOf(_, _)
\* The classes c derives from, directly or not.
AncestorsOf(bs, c) ==
    UNION {{bs[c][i]} \cup AncestorsOf(bs, bs[c][i]) : i \in DOMAIN bs[c]}

\* C27: the root validators of every class are those of its ancestors, each
\* once and none of a class before those of a class it derives from,
\* followed by the ones the class body defines, in the order of the body;
\* constructing an instance runs each of them exactly once.
C27_RootValidatorsAncestorsFirstOnce ==
    /\ \A c \in DOMAIN validators_of :
          LET t == validators_of[c]
              lineage == AncestorsOf(class_bases, c) \cup {c}
          IN  /\ RangeOf(t) = UNION {{<<a, k>> : k \in 1..own_roots[a]} : a \in lineage}
              /\ \A i, j \in DOMAIN t :
                    i < j =>
                        /\ t[i] # t[j]
                        /\ t[i][1] = t[j][1] => t[i][2] < t[j][2]
                        /\ t[j][1] \notin AncestorsOf(class_bases, t[i][1])
                        /\ t[i][1] = c => t[j][1] = c
    /\ kpc = "constructed" =>
          \A v \in RangeOf(validators_of[declared_upto]) :
              Cardinality({i \in DOMAIN ran : ran[i] = v}) = 1

\* Class 3 derives from class 2 and class 1, class 2 from class 1, so the
\* root validator of class 1 reaches class 3 through two bases; an instance
\* of class 3 was constructed and ran it once, first, then the one of class
\* 2, then the two of class 3.
C27_Witness ==
    /\ kpc = "constructed"
    /\ Len(class_bases) = 3
    /\ class_bases[2] = <<1>>
    /\ class_bases[3] = <<2, 1>>
    /\ own_roots = <<1, 1, 2>>
    /\ ran = << <<1, 1>>, <<2, 1>>, <<3, 1>>, <<3, 2>> >>

====
